---- MODULE Spec2Model ----
(***************************************************************************)
(* Asset decoding and NPC name generation of OpenTESArena                   *)
(* (src/Assets/MiscAssets.cpp).  Text is a sequence of one-character        *)
(* strings, binary data a sequence of bytes (0..255).  Each parser is a     *)
(* state machine of its own with its own specification; the variables of    *)
(* the other parsers stay idle meanwhile.                                   *)
(***************************************************************************)
EXTENDS Integers, Sequences, FiniteSets, TLC

VARIABLES
    \* parseTemplateDat
    tPc,          \* "idle", "loop", "done", "error"
    tRest,        \* unread part of the TEMPLATE.DAT text (the istringstream)
    tKey,         \* local `key`
    tValue,       \* local `value`
    templateDat,  \* member templateDat: key -> cleaned value
    tBody,        \* history: key -> the uncleaned `value` it was inserted from
    \* parseQuestionTxt
    qPc,          \* "idle", "loop", "done", "error"
    qRest,        \* unread part of the QUESTION.TXT text
    qMode,        \* local `mode`: "Description", "A", "B", "C"
    qDesc, qA, qB, qC,  \* locals description, a, b, c
    questionTxt,  \* member questionTxt: the questions pushed so far
    qErr,         \* the exception that ended the parse, or "none"
    qFlushes,     \* history: addQuestion calls made so far
    qInput,       \* history: the tag characters the text was written with
    qText,        \* history: the whole QUESTION.TXT text
    \* generateNpcName (called twice with the same arguments)
    nameChunks,   \* member nameChunks: groups of strings (bytes)
    nRace, nMale, \* arguments raceID, isMale
    nTraps,       \* the build: TRUE when a signed overflow traps
    nDivTraps,    \* the build: TRUE when an integer division by zero traps (SIGFPE)
    rngTape,      \* the values the generator yields, in order
    nCall,        \* 1 for the first call, 2 for the repeated one
    nPc,          \* "idle", "call", "rules", "done", "error"
    nSlot,        \* index passed to NameRules.at
    nRule,        \* position in chunkRules of the rule to evaluate next
    nName,        \* local `name`
    nDraws,       \* random.next() calls made by this call
    nErr,         \* the failure that ended the call, or "none"
    nLog,         \* history: per evaluated rule, the values drawn and the text appended
    nFirst,       \* history: outcome of the first call
    \* parseNameChunks
    cPc,          \* "idle", "loop", "done", "crash"
    cData,        \* srcData: the bytes of NAMECHNK.DAT
    cOffset,      \* local `offset`
    cTrace,       \* history: the offset each record was read at
    cLens,        \* history: the chunkLength each record was read with
    cBeyond,      \* history: how many iterations read past the end of srcData
    cRecs,        \* history: the records the file was written from
    \* WorldMapTerrain::getFailSafeAt
    gPc,          \* "idle", "start", "scan", "done", "error"
    gLand,        \* member indices: pixel index -> value, for the pixels that are not sea
    gX, gY,       \* arguments x, y
    gDist,        \* loop variable dist
    gResult,      \* the value returned
    gProbed,      \* history: the pixel indices passed to indices.at
    \* parseClasses
    kPc,          \* "idle", "ids", "choices", "defs", "done", "error", "crash"
    kI,           \* loop variable i of the loop in progress
    kSize,        \* srcData.size(): the length of CLASSES.DAT
    kExe,         \* argument exeData.charClasses: class number -> its values
    kClasses,     \* member classesDat.classes: the entries written so far
    kChoices,     \* member classesDat.choices: the entries written so far
    classDefinitions,  \* member classDefinitions
    kBeyond,      \* history: offsets read at or after srcData.size()
    kErr,         \* the failure that ended the parse, or "none"
    \* parseStandardSpells
    sPc,          \* "idle", "loop", "done", "crash"
    sOffset,      \* local `offset`
    sSize,        \* srcData.size(): the length of SPELLSG.65
    standardSpells,  \* member standardSpells: the entries written so far
    sBeyond,      \* history: offsets read at or after srcData.size()
    \* Game::Game, MiscAssets::init and the accessors
    aPc,          \* "idle", "boot", "init", "running", "aborted"
    aBoot,        \* position in Game::Game: index of the step to run next
    aStep,        \* position in MiscAssets::init: index of the step to run next
    aMissing,     \* the files that do not exist
    aVfs,         \* VFS::Manager::get().initialize(...) was called
    aTables,      \* the members of MiscAssets: name -> the records loaded into it
    aLog,         \* history: the steps run so far
    aPanel,       \* member panel of Game is set
    aInits,       \* history: init calls completed
    aReturned,    \* what the last accessor call returned
    \* parseSpellMakerDescriptions
    mPc,          \* "idle", "loop", "done", "error", "crash"
    mRest,        \* unread part of the SPELLMKR.TXT text (the stringstream)
    mState,       \* local `state`: <<>> for nullptr, else <<[index, str]>>
    spellMakerDescriptions,  \* member: index -> text, for the elements assigned so far
    mErr,         \* the failure that ended the parse, or "none"
    mInput,       \* history: the lines the text was written from
    mStopped,     \* history: "eof" or "break" once the loop was left, else "no"
    \* parseWorldMapMasks
    wPc,          \* "idle", "loop", "done", "crash"
    wOffset,      \* local `offset`
    wSize,        \* srcData.size(): the length of TAMRIEL.MNU
    wSeed,        \* which of the file contents was read
    worldMapMasks,  \* member worldMapMasks: the elements assigned so far
    wBeyond,      \* history: positions copied from at or after srcData.size()
    wFrom,        \* history: the file position each mask was copied from
    \* Game: the panel, the sub-panels and the requested changes
    pPc,          \* "idle", "frame", "handling", "aborted", "crash"
    panel,        \* member panel: the main panel
    subPanels,    \* member subPanels: the stack of sub-panels, top last
    nextPanel,    \* member nextPanel, 0 for nullptr
    nextSubPanel, \* member nextSubPanel, 0 for nullptr
    requestedSubPanelPop,  \* member requestedSubPanelPop
    pActive,      \* the panel whose handleEvent or tick is running, else 0
    pFresh,       \* the panel the next std::make_unique creates
    pDestroyed,   \* history: the panels destroyed so far
    pCall,        \* history: the call made last
    \* ChooseNamePanel
    ePc,          \* "idle", "input", "class", "gender"
    eName,        \* member name: character codes
    eShown,       \* the text of nameTextBox
    eAccepted,    \* history: the names passed to ChooseGenderPanel
    eLast         \* history: the event handled last

tplVars == <<tPc, tRest, tKey, tValue, templateDat, tBody>>
quizVars == <<qPc, qRest, qMode, qDesc, qA, qB, qC, questionTxt, qErr, qFlushes, qInput, qText>>
nameLocals == <<nRace, nMale, nTraps, nDivTraps, rngTape, nCall, nPc, nSlot, nRule,
                nName, nDraws, nErr, nLog, nFirst>>
nameVars == <<nameChunks, nameLocals>>
chunkVars == <<cPc, cData, cOffset, cTrace, cLens, cBeyond, cRecs>>
terrVars == <<gPc, gLand, gX, gY, gDist, gResult, gProbed>>
classVars == <<kPc, kI, kSize, kExe, kClasses, kChoices, classDefinitions,
               kBeyond, kErr>>
\* The parsers of the first part of the module, and those of the second.
firstVars == <<tplVars, quizVars, nameVars, chunkVars, terrVars>>
spellVars == <<sPc, sOffset, sSize, standardSpells, sBeyond>>
gameVars == <<aPc, aBoot, aStep, aMissing, aVfs, aTables, aLog, aPanel, aInits, aReturned>>
makerVars == <<mPc, mRest, mState, spellMakerDescriptions, mErr, mInput, mStopped>>
otherVars == <<classVars, spellVars, gameVars, makerVars>>
maskVars == <<wPc, wOffset, wSize, wSeed, worldMapMasks, wBeyond, wFrom>>
\* The world map masks and the panels.
panelVars == <<pPc, panel, subPanels, nextPanel, nextSubPanel, requestedSubPanelPop,
               pActive, pFresh, pDestroyed, pCall>>
entryVars == <<ePc, eName, eShown, eAccepted, eLast>>
thirdVars == <<maskVars, panelVars, entryVars>>
vars == <<firstVars, otherVars, thirdVars>>

---------------------------------------------------------------------------
(* Generic sequence helpers *)

Last(s) == s[Len(s)]
Front(s) == SubSeq(s, 1, Len(s) - 1)
EndsWith(s, c) == Len(s) > 0 /\ Last(s) = c

\* All sequences over S of length 0..n.
SeqsUpTo(S, n) == UNION { [1..k -> S] : k \in 0..n }

EmptyMap == [k \in {} |-> <<>>]

\* A read past the end of srcData is undefined: it faults, or it yields the
\* byte the memory holds at that address, which can be any value of an
\* unsigned char.
ByteValues == 0..255

\* std::getline(stream, line): the characters before the first '\n' (the
\* delimiter is extracted and dropped); at end of input without '\n', the rest.
RECURSIVE NewlinePos(_, _)
NewlinePos(s, i) ==
    IF i > Len(s) THEN Len(s) + 1
    ELSE IF s[i] = "\n" THEN i
    ELSE NewlinePos(s, i + 1)

GetLine(s) == SubSeq(s, 1, NewlinePos(s, 1) - 1)
AfterLine(s) == SubSeq(s, NewlinePos(s, 1) + 1, Len(s))

\* String::replace(str, a, b): every a becomes b.
StringReplace(s, a, b) == [i \in 1..Len(s) |-> IF s[i] = a THEN b ELSE s[i]]

\* Remove every character of `drop` from s.
RECURSIVE RemoveChars(_, _)
RemoveChars(s, drop) ==
    IF s = <<>> THEN <<>>
    ELSE IF Head(s) \in drop THEN RemoveChars(Tail(s), drop)
    ELSE <<Head(s)>> \o RemoveChars(Tail(s), drop)

\* String::trimLines: drops carriage returns and newlines.
StringTrimLines(s) == RemoveChars(s, {"\r", "\n"})
\* String::trim: drops spaces.
StringTrim(s) == RemoveChars(s, {" "})

---------------------------------------------------------------------------
(* parseTemplateDat *)

MaxTemplateLen == 7
TemplateChars == {"#", "a", "&", "\r", "\n"}

\* while ((value.size() > 0) && (value.back() == '\n')) value.pop_back();
RECURSIVE PopTrailingNewlines(_)
PopTrailingNewlines(s) ==
    IF Len(s) > 0 /\ Last(s) = "\n" THEN PopTrailingNewlines(Front(s)) ELSE s

\* if ((value.size() > 0) && (value.back() == '&')) value.pop_back();
PopAmpersand(s) == IF Len(s) > 0 /\ Last(s) = "&" THEN Front(s) ELSE s

\* A cleanup that forgets the ampersand.
TemplateCleanKeepsAmpersand(value) ==
    PopTrailingNewlines(StringReplace(value, "\r", "\n"))

\* The cleanup applied to `value` before it is inserted.
TemplateClean(value) ==
    PopAmpersand(PopTrailingNewlines(StringReplace(value, "\r", "\n")))

TemplateIdle ==
    /\ tPc = "idle" /\ tRest = <<>> /\ tKey = <<>> /\ tValue = <<>>
    /\ templateDat = EmptyMap /\ tBody = EmptyMap

TemplateStart ==
    /\ tPc = "loop"
    /\ tRest \in SeqsUpTo(TemplateChars, MaxTemplateLen)
    /\ tKey = <<>> /\ tValue = <<>>
    /\ templateDat = EmptyMap /\ tBody = EmptyMap

\* One iteration of while (std::getline(iss, line)).
TemplateLine ==
    /\ tPc = "loop" /\ tRest # <<>>
    /\ LET line == GetLine(tRest) IN
       /\ tRest' = AfterLine(tRest)
       /\ IF line = <<>>
          THEN \* line.at(0) throws std::out_of_range
               /\ tPc' = "error"
               /\ UNCHANGED <<tKey, tValue, templateDat, tBody>>
          ELSE IF line[1] = "#"
          THEN /\ IF tKey \notin DOMAIN templateDat
                  THEN /\ templateDat' = (tKey :> TemplateClean(tValue)) @@ templateDat
                       /\ tBody' = (tKey :> tValue) @@ tBody
                  ELSE UNCHANGED <<templateDat, tBody>>
               /\ tKey' = StringTrim(StringTrimLines(line))
               /\ tValue' = <<>>
               /\ tPc' = "loop"
          ELSE /\ tValue' = tValue \o line
               /\ UNCHANGED <<tPc, tKey, templateDat, tBody>>
    /\ UNCHANGED <<quizVars, nameVars, chunkVars, terrVars, otherVars, thirdVars>>

\* getline fails at end of input; this->templateDat.erase("").
TemplateEnd ==
    /\ tPc = "loop" /\ tRest = <<>>
    /\ templateDat' = [k \in DOMAIN templateDat \ {<<>>} |-> templateDat[k]]
    /\ tBody' = [k \in DOMAIN tBody \ {<<>>} |-> tBody[k]]
    /\ tPc' = "done"
    /\ UNCHANGED <<tRest, tKey, tValue>>
    /\ UNCHANGED <<quizVars, nameVars, chunkVars, terrVars, otherVars, thirdVars>>

---------------------------------------------------------------------------
(* parseQuestionTxt *)

MaxQuestions == 2
QuizTags == {"l", "c", "v", "z"}

LowerLetters == {"a", "b", "c", "d", "e", "f", "g", "h", "i", "j", "k", "l", "m",
                 "n", "o", "p", "q", "r", "s", "t", "u", "v", "w", "x", "y", "z"}
UpperLetters == {"A", "B", "C", "D", "E", "F", "G", "H", "I", "J", "K", "L", "M",
                 "N", "O", "P", "Q", "R", "S", "T", "U", "V", "W", "X", "Y", "Z"}
Digits == {"0", "1", "2", "3", "4", "5", "6", "7", "8", "9"}
IsAlpha(ch) == ch \in LowerLetters \cup UpperLetters
IsDigit(ch) == ch \in Digits

\* std::string::npos is size_t(-1): in size_t arithmetic npos + 2 wraps to 1,
\* npos + 1 to 0.  It is kept as -1 so that the sums below are the wrapped ones.
Npos == 0 - 1

\* choice.find("(5"): the 0-based position of the first "(5", or npos.
RECURSIVE FindFrom(_, _)
FindFrom(s, i) ==
    IF i + 1 > Len(s) THEN Npos
    ELSE IF s[i] = "(" /\ s[i + 1] = "5" THEN i - 1
    ELSE FindFrom(s, i + 1)
FindMarker(s) == FindFrom(s, 1)

\* A getCategory that reads the character right after the '(' .
GetCategoryOffByOne(choice) ==
    LET at == FindMarker(choice) + 1 IN
    IF at >= Len(choice) THEN [ok |-> FALSE, err |-> "out_of_range"]
    ELSE LET categoryChar == choice[at + 1] IN
         IF categoryChar = "l" THEN [ok |-> TRUE, cat |-> "Mage"]
         ELSE IF categoryChar = "c" THEN [ok |-> TRUE, cat |-> "Thief"]
         ELSE IF categoryChar = "v" THEN [ok |-> TRUE, cat |-> "Warrior"]
         ELSE [ok |-> FALSE, err |-> "runtime_error"]

\* getCategory: choice.at(choice.find("(5") + 2).
GetCategory(choice) ==
    LET at == FindMarker(choice) + 2 IN
    IF at >= Len(choice) THEN [ok |-> FALSE, err |-> "out_of_range"]
    ELSE LET categoryChar == choice[at + 1] IN
         IF categoryChar = "l" THEN [ok |-> TRUE, cat |-> "Mage"]
         ELSE IF categoryChar = "c" THEN [ok |-> TRUE, cat |-> "Thief"]
         ELSE IF categoryChar = "v" THEN [ok |-> TRUE, cat |-> "Warrior"]
         ELSE [ok |-> FALSE, err |-> "runtime_error"]

\* The exceptions addQuestion can end with: the three getCategory calls are
\* arguments of one constructor call, evaluated in an unspecified order.
AddQuestionErrors(a, b, c) ==
    { GetCategory(x).err : x \in { y \in {a, b, c} : ~GetCategory(y).ok } }

\* The CharacterQuestion addQuestion pushes when no getCategory throws.
MakeQuestion(description, a, b, c) ==
    [description |-> description,
     a |-> a, b |-> b, c |-> c,
     catA |-> GetCategory(a).cat,
     catB |-> GetCategory(b).cat,
     catC |-> GetCategory(c).cat]

\* The text of one question written with tags t[1], t[2], t[3].
QuestionText(t) ==
    <<"1", ".", "q", "\n">>
    \o <<"a", ".", "x", "(", "5", t[1], ")", "\n">>
    \o <<"b", ".", "(", "5", t[2], ")", "\n", " ", "y", "\n">>
    \o <<"c", ".", "z", "\n", " ", "(", "5", t[3], ")", "\n">>

RECURSIVE QuizText(_)
QuizText(ts) ==
    IF ts = <<>> THEN <<>> ELSE QuestionText(Head(ts)) \o QuizText(Tail(ts))

\* The tag triples of the questions of a text.  What follows a question with
\* a tag other than l, c, v is never parsed, so it is written one way only.
HasBadTag(t) == \E i \in 1..3 : t[i] \notin {"l", "c", "v"}
QuizInputs ==
    { ts \in SeqsUpTo(QuizTags \X QuizTags \X QuizTags, MaxQuestions) :
        \A i \in 1..Len(ts) :
            (\E j \in 1..(i - 1) : HasBadTag(ts[j])) => ts[i] = <<"l", "c", "v">> }

QuizIdle ==
    /\ qPc = "idle" /\ qRest = <<>> /\ qMode = "Description"
    /\ qDesc = <<>> /\ qA = <<>> /\ qB = <<>> /\ qC = <<>>
    /\ questionTxt = <<>> /\ qErr = "none" /\ qFlushes = 0 /\ qInput = <<>>
    /\ qText = <<>>

\* Well-formed texts: each question has a digit-led description and three
\* choices, each with a "(5x)" tag.
QuizStart ==
    /\ qInput \in QuizInputs
    /\ qText = QuizText(qInput)
    /\ qRest = qText
    /\ qPc = "loop" /\ qMode = "Description"
    /\ qDesc = <<>> /\ qA = <<>> /\ qB = <<>> /\ qC = <<>>
    /\ questionTxt = <<>> /\ qErr = "none" /\ qFlushes = 0

\* Texts of any shape: up to MaxQuizLines lines, each ended by a newline.  The
\* lines are a description line, choice lines without a "(5x)" tag, and lines
\* that continue the string in progress.  The parse ends at an empty line, so
\* an empty line is written as the last line only.
MaxQuizLines == 5
QuizLines ==
    { <<"1">>, <<"a", "l">>, <<"b", "c">>, <<"b", "x">>, <<"c", "v">>,
      <<"x">>, <<" ">> }

RECURSIVE JoinLines(_)
JoinLines(ls) ==
    IF ls = <<>> THEN <<>> ELSE Head(ls) \o <<"\n">> \o JoinLines(Tail(ls))

QuizLinesStart ==
    /\ qInput = <<>>
    /\ \E n \in 0..MaxQuizLines : \E ls \in [1..n -> QuizLines] :
          \/ qText = JoinLines(ls)
          \/ n < MaxQuizLines /\ qText = JoinLines(Append(ls, <<>>))
    /\ qRest = qText
    /\ qPc = "loop" /\ qMode = "Description"
    /\ qDesc = <<>> /\ qA = <<>> /\ qB = <<>> /\ qC = <<>>
    /\ questionTxt = <<>> /\ qErr = "none" /\ qFlushes = 0

\* A mode switch in which every letter other than 'a', 'b', 'c' starts a
\* description.
QuizModeAfterLetterResets(mode, ch) ==
    IF ch = "a" THEN "A"
    ELSE IF ch = "b" THEN "B"
    ELSE IF ch = "c" THEN "C"
    ELSE IF IsAlpha(ch) \/ IsDigit(ch) THEN "Description"
    ELSE mode

\* The mode after the checks on the line's first character.
QuizModeAfter(mode, ch) ==
    IF IsAlpha(ch)
    THEN IF ch = "a" THEN "A"
         ELSE IF ch = "b" THEN "B"
         ELSE IF ch = "c" THEN "C"
         ELSE mode
    ELSE IF IsDigit(ch) THEN "Description"
    ELSE mode

\* line += '\n' and the append onto the string of the mode in force.
QuizAppend(mode, line, description, a, b, c) ==
    /\ qDesc' = IF mode = "Description" THEN description \o line \o <<"\n">> ELSE description
    /\ qA' = IF mode = "A" THEN a \o line \o <<"\n">> ELSE a
    /\ qB' = IF mode = "B" THEN b \o line \o <<"\n">> ELSE b
    /\ qC' = IF mode = "C" THEN c \o line \o <<"\n">> ELSE c

\* One iteration of while (std::getline(iss, line)).
QuizLine ==
    /\ qPc = "loop" /\ qRest # <<>>
    /\ LET line == GetLine(qRest) IN
       /\ qRest' = AfterLine(qRest)
       /\ IF line = <<>>
          THEN \* line.at(0) throws std::out_of_range
               /\ qPc' = "error" /\ qErr' = "out_of_range"
               /\ UNCHANGED <<qMode, qDesc, qA, qB, qC, questionTxt, qFlushes>>
          ELSE LET ch == line[1]
                   flush == ~IsAlpha(ch) /\ IsDigit(ch) /\ qMode # "Description"
                   mode == QuizModeAfter(qMode, ch)
               IN IF flush /\ AddQuestionErrors(qA, qB, qC) # {}
                  THEN \* addQuestion throws out of the loop
                       /\ qPc' = "error"
                       /\ qErr' \in AddQuestionErrors(qA, qB, qC)
                       /\ qFlushes' = qFlushes + 1
                       /\ UNCHANGED <<qMode, qDesc, qA, qB, qC, questionTxt>>
                  ELSE IF flush
                  THEN /\ questionTxt' = Append(questionTxt, MakeQuestion(qDesc, qA, qB, qC))
                       /\ qFlushes' = qFlushes + 1
                       /\ qMode' = mode
                       /\ QuizAppend(mode, line, <<>>, <<>>, <<>>, <<>>)
                       /\ UNCHANGED <<qPc, qErr>>
                  ELSE /\ qMode' = mode
                       /\ QuizAppend(mode, line, qDesc, qA, qB, qC)
                       /\ UNCHANGED <<qPc, qErr, questionTxt, qFlushes>>
    /\ UNCHANGED <<qInput, qText>>
    /\ UNCHANGED <<tplVars, nameVars, chunkVars, terrVars, otherVars, thirdVars>>

\* getline fails at end of input; the last addQuestion(description, a, b, c).
QuizEnd ==
    /\ qPc = "loop" /\ qRest = <<>>
    /\ qFlushes' = qFlushes + 1
    /\ IF AddQuestionErrors(qA, qB, qC) # {}
       THEN /\ qPc' = "error"
            /\ qErr' \in AddQuestionErrors(qA, qB, qC)
            /\ UNCHANGED questionTxt
       ELSE /\ questionTxt' = Append(questionTxt, MakeQuestion(qDesc, qA, qB, qC))
            /\ qPc' = "done"
            /\ UNCHANGED qErr
    /\ UNCHANGED <<qRest, qMode, qDesc, qA, qB, qC, qInput, qText>>
    /\ UNCHANGED <<tplVars, nameVars, chunkVars, terrVars, otherVars, thirdVars>>

---------------------------------------------------------------------------
(* NameRule, NameRules and generateNpcName *)

MaxGroupSize == 2
\* Values random.next() yields.
DrawValues == {25, 26, 75, 76, 175}
\* Numbers of groups in the loaded table.
TableLengths == {0, 9, 58}

Min(a, b) == IF a <= b THEN a ELSE b

\* The four NameRule constructors.  A string is kept in a std::array<char, 4>.
RuleIndex(index) == [type |-> "Index", index |-> index]
RuleString(str) == [type |-> "String", str |-> SubSeq(str, 1, Min(Len(str), 4))]
RuleIndexChance(index, chance) ==
    [type |-> "IndexChance", index |-> index, chance |-> chance]
RuleIndexStringChance(index, str, chance) ==
    [type |-> "IndexStringChance", index |-> index,
     str |-> SubSeq(str, 1, Min(Len(str), 4)), chance |-> chance]

Space == <<32>>
Sen == <<115, 101, 110>>

NameRules == <<
    \* Race 0.
    <<RuleIndex(0), RuleIndex(1), RuleString(Space), RuleIndex(4), RuleIndex(5)>>,
    <<RuleIndex(2), RuleIndex(3), RuleString(Space), RuleIndex(4), RuleIndex(5)>>,
    \* Race 1.
    <<RuleIndex(6), RuleIndex(7), RuleIndex(8), RuleIndexChance(9, 75)>>,
    <<RuleIndex(6), RuleIndex(7), RuleIndex(8), RuleIndexChance(9, 75), RuleIndex(10)>>,
    \* Race 2.
    <<RuleIndex(11), RuleIndex(12), RuleString(Space), RuleIndex(15), RuleIndex(16), RuleString(Sen)>>,
    <<RuleIndex(13), RuleIndex(14), RuleString(Space), RuleIndex(15), RuleIndex(16), RuleString(Sen)>>,
    \* Race 3.
    <<RuleIndex(17), RuleIndex(18), RuleString(Space), RuleIndex(21), RuleIndex(22)>>,
    <<RuleIndex(19), RuleIndex(20), RuleString(Space), RuleIndex(21), RuleIndex(22)>>,
    \* Race 4.
    <<RuleIndex(23), RuleIndex(24), RuleString(Space), RuleIndex(27), RuleIndex(28)>>,
    <<RuleIndex(25), RuleIndex(26), RuleString(Space), RuleIndex(27), RuleIndex(28)>>,
    \* Race 5.
    <<RuleIndex(29), RuleIndex(30), RuleString(Space), RuleIndex(33), RuleIndex(34)>>,
    <<RuleIndex(31), RuleIndex(32), RuleString(Space), RuleIndex(33), RuleIndex(34)>>,
    \* Race 6.
    <<RuleIndex(35), RuleIndex(36), RuleString(Space), RuleIndex(39), RuleIndex(40)>>,
    <<RuleIndex(37), RuleIndex(38), RuleString(Space), RuleIndex(39), RuleIndex(40)>>,
    \* Race 7.
    <<RuleIndex(41), RuleIndex(42), RuleString(Space), RuleIndex(45), RuleIndex(46)>>,
    <<RuleIndex(43), RuleIndex(44), RuleString(Space), RuleIndex(45), RuleIndex(46)>>,
    \* Race 8.
    <<RuleIndex(47), RuleIndexChance(48, 75), RuleIndex(49)>>,
    <<RuleIndex(47), RuleIndexChance(48, 75), RuleIndex(49)>>,
    \* Race 9.
    <<RuleIndex(47), RuleIndexChance(48, 75), RuleIndex(49)>>,
    <<RuleIndex(47), RuleIndexChance(48, 75), RuleIndex(49)>>,
    \* Race 10.
    <<RuleIndex(47), RuleIndexChance(48, 75), RuleIndex(49)>>,
    <<RuleIndex(47), RuleIndexChance(48, 75), RuleIndex(49)>>,
    \* Race 11.
    <<RuleIndex(47), RuleIndexChance(48, 75), RuleIndex(49)>>,
    <<RuleIndex(47), RuleIndexChance(48, 75), RuleIndex(49)>>,
    \* Race 12.
    <<RuleIndex(47), RuleIndexChance(48, 75), RuleIndex(49)>>,
    <<RuleIndex(47), RuleIndexChance(48, 75), RuleIndex(49)>>,
    \* Race 13.
    <<RuleIndex(47), RuleIndexChance(48, 75), RuleIndex(49)>>,
    <<RuleIndex(47), RuleIndexChance(48, 75), RuleIndex(49)>>,
    \* Race 14.
    <<RuleIndex(47), RuleIndexChance(48, 75), RuleIndex(49)>>,
    <<RuleIndex(47), RuleIndexChance(48, 75), RuleIndex(49)>>,
    \* Race 15.
    <<RuleIndex(47), RuleIndexChance(48, 75), RuleIndex(49)>>,
    <<RuleIndex(47), RuleIndexChance(48, 75), RuleIndex(49)>>,
    \* Race 16.
    <<RuleIndex(47), RuleIndexChance(48, 75), RuleIndex(49)>>,
    <<RuleIndex(47), RuleIndexChance(48, 75), RuleIndex(49)>>,
    \* Race 17.
    <<RuleIndex(50), RuleIndexChance(51, 75), RuleIndex(52)>>,
    <<RuleIndex(50), RuleIndexChance(51, 75), RuleIndex(52)>>,
    \* Race 18.
    <<RuleIndex(50), RuleIndexChance(51, 75), RuleIndex(52)>>,
    <<RuleIndex(50), RuleIndexChance(51, 75), RuleIndex(52)>>,
    \* Race 19.
    <<RuleIndex(50), RuleIndexChance(51, 75), RuleIndex(52)>>,
    <<RuleIndex(50), RuleIndexChance(51, 75), RuleIndex(52)>>,
    \* Race 20.
    <<RuleIndex(50), RuleIndexChance(51, 75), RuleIndex(52)>>,
    <<RuleIndex(50), RuleIndexChance(51, 75), RuleIndex(52)>>,
    \* Race 21.
    <<RuleIndex(50), RuleIndex(52), RuleIndex(53)>>,
    <<RuleIndex(50), RuleIndex(52), RuleIndex(53)>>,
    \* Race 22.
    <<RuleIndexStringChance(54, Space, 25), RuleIndex(55), RuleIndex(56), RuleIndex(57)>>,
    <<RuleIndexStringChance(54, Space, 25), RuleIndex(55), RuleIndex(56), RuleIndex(57)>>,
    \* Race 23.
    <<RuleIndex(55), RuleIndex(56), RuleIndex(57)>>,
    <<RuleIndex(55), RuleIndex(56), RuleIndex(57)>>
>>

\* int is 32 bits wide.
IntMin == (0 - 2^30) - 2^30

\* raceID * 2 overflows int outside -2^30 .. 2^30 - 1.
DoublingOverflows(raceID) == raceID < 0 - 2^30 \/ raceID >= 2^30
\* raceID * 2 reduced modulo 2^32 into the range of int.
DoubleWrapped(raceID) ==
    IF raceID >= 2^30 THEN ((raceID - 2^30) - 2^30) * 2
    ELSE IF raceID < 0 - 2^30 THEN ((raceID + 2^30) + 2^30) * 2
    ELSE raceID * 2

\* A slot with the two genders exchanged.
RuleSlotFemaleFirst(raceID, isMale) == DoubleWrapped(raceID) + (IF isMale THEN 1 ELSE 0)

\* (raceID * 2) + (isMale ? 0 : 1)
RuleSlot(raceID, isMale) == DoubleWrapped(raceID) + (IF isMale THEN 0 ELSE 1)

\* std::array::at / std::vector::at: the index is in range.
InRange(index, size) == 0 <= index /\ index < size

\* A pick that ignores the value drawn.
ChunkPickFirst(chunkList, draw) == chunkList[1]

\* chunkList.at(random.next() % static_cast<int>(chunkList.size()))
ChunkPick(chunkList, draw) == chunkList[(draw % Len(chunkList)) + 1]

\* A chance test that always passes.
ChancePassesAlways(draw, chance) == TRUE

\* A chance test that excludes the chance value itself.
ChancePassesStrict(draw, chance) == (draw % 100) < chance

\* (random.next() % 100) <= chance
ChancePasses(draw, chance) == (draw % 100) <= chance

\* The values the generator can yield as the p-th value of its sequence.
DrawAt(p) == IF p <= Len(rngTape) THEN {rngTape[p]} ELSE DrawValues
\* The sequence after the values ds were drawn by the current call.
TapeAfter(ds) ==
    IF nDraws + Len(ds) > Len(rngTape) THEN SubSeq(rngTape, 1, nDraws) \o ds ELSE rngTape

\* String number i of group number g (both 0-based) of a generated table.
ChunkString(g, i) == <<g + 1, 100 + i>>
\* A table of n groups; groups 0, 2, 4, ... hold sz strings, the others at most one.
ChunkTable(n, sz) ==
    [g \in 1..n |-> [i \in 1..(IF g % 2 = 1 THEN sz ELSE Min(sz, 1)) |-> ChunkString(g - 1, i - 1)]]
NameTables == { ChunkTable(n, sz) : n \in TableLengths, sz \in 0..MaxGroupSize }

RaceIDs == (0 - 1)..24 \cup {IntMin, 2^30}

NameLocalsIdle ==
    /\ nRace = 0 /\ nMale = TRUE /\ nTraps = FALSE /\ nDivTraps = TRUE
    /\ rngTape = <<>> /\ nCall = 0 /\ nPc = "idle" /\ nSlot = 0 /\ nRule = 0
    /\ nName = <<>> /\ nDraws = 0 /\ nErr = "none" /\ nLog = <<>> /\ nFirst = <<>>

NameIdle == nameChunks = <<>> /\ NameLocalsIdle

NameStart ==
    /\ nameChunks \in NameTables
    /\ nRace \in RaceIDs /\ nMale \in BOOLEAN
    /\ nTraps \in (IF DoublingOverflows(nRace) THEN BOOLEAN ELSE {FALSE})
    /\ nDivTraps \in (IF \E g \in DOMAIN nameChunks : nameChunks[g] = <<>>
                      THEN BOOLEAN ELSE {TRUE})
    /\ rngTape = <<>> /\ nCall = 1 /\ nPc = "call" /\ nSlot = 0 /\ nRule = 0
    /\ nName = <<>> /\ nDraws = 0 /\ nErr = "none" /\ nLog = <<>> /\ nFirst = <<>>

NameFail(err, drawn) ==
    /\ nPc' = "error" /\ nErr' = err
    /\ nDraws' = nDraws + Len(drawn)
    /\ rngTape' = TapeAfter(drawn)
    /\ UNCHANGED <<nName, nRule, nLog>>

NameAppend(text, drawn) ==
    /\ nName' = nName \o text
    /\ nLog' = Append(nLog, [draws |-> drawn, out |-> text])
    /\ nDraws' = nDraws + Len(drawn)
    /\ rngTape' = TapeAfter(drawn)
    /\ nRule' = nRule + 1
    /\ UNCHANGED <<nPc, nErr>>

\* x % 0 with x drawn: SIGFPE on a build whose division traps (x86), whether
\* or not raceID * 2 wrapped before; otherwise the remainder is some value
\* and chunkList.at on the empty list throws.
DivByZeroError == IF nDivTraps THEN "SIGFPE" ELSE "out_of_range"

\* const auto &chunkRules = NameRules.at((raceID * 2) + (isMale ? 0 : 1));
NameCall ==
    /\ nPc = "call"
    /\ IF DoublingOverflows(nRace) /\ nTraps
       THEN /\ nPc' = "error" /\ nErr' = "overflow_trap"
            /\ UNCHANGED <<nSlot, nRule>>
       ELSE IF ~InRange(RuleSlot(nRace, nMale), Len(NameRules))
       THEN /\ nPc' = "error" /\ nErr' = "out_of_range"
            /\ UNCHANGED <<nSlot, nRule>>
       ELSE /\ nPc' = "rules" /\ nSlot' = RuleSlot(nRace, nMale) /\ nRule' = 1
            /\ UNCHANGED nErr
    /\ UNCHANGED <<nameChunks, nRace, nMale, nTraps, nDivTraps, rngTape, nCall, nName, nDraws, nLog, nFirst>>
    /\ UNCHANGED <<tplVars, quizVars, chunkVars, terrVars, otherVars, thirdVars>>

\* One iteration of for (const auto &rule : chunkRules).
NameRuleStep ==
    /\ nPc = "rules" /\ nRule <= Len(NameRules[nSlot + 1])
    /\ LET rule == NameRules[nSlot + 1][nRule] IN
       IF rule.type = "String"
       THEN NameAppend(rule.str, <<>>)
       ELSE IF ~InRange(rule.index, Len(nameChunks))
       THEN \* this->nameChunks.at(index) throws
            NameFail("out_of_range", <<>>)
       ELSE LET chunkList == nameChunks[rule.index + 1] IN
            IF rule.type = "Index"
            THEN \E d \in DrawAt(nDraws + 1) :
                    IF Len(chunkList) = 0
                    THEN NameFail(DivByZeroError, <<d>>)
                    ELSE NameAppend(ChunkPick(chunkList, d), <<d>>)
            ELSE \E t \in DrawAt(nDraws + 1) :
                    IF ~ChancePasses(t, rule.chance)
                    THEN NameAppend(<<>>, <<t>>)
                    ELSE \E d \in DrawAt(nDraws + 2) :
                            IF Len(chunkList) = 0
                            THEN NameFail(DivByZeroError, <<t, d>>)
                            ELSE IF rule.type = "IndexChance"
                            THEN NameAppend(ChunkPick(chunkList, d), <<t, d>>)
                            ELSE NameAppend(ChunkPick(chunkList, d) \o rule.str, <<t, d>>)
    /\ UNCHANGED <<nameChunks, nRace, nMale, nTraps, nDivTraps, nCall, nSlot, nFirst>>
    /\ UNCHANGED <<tplVars, quizVars, chunkVars, terrVars, otherVars, thirdVars>>

\* return name;
NameReturn ==
    /\ nPc = "rules" /\ nRule > Len(NameRules[nSlot + 1])
    /\ nPc' = "done"
    /\ UNCHANGED <<nameChunks, nRace, nMale, nTraps, nDivTraps, rngTape, nCall, nSlot, nRule, nName,
                   nDraws, nErr, nLog, nFirst>>
    /\ UNCHANGED <<tplVars, quizVars, chunkVars, terrVars, otherVars, thirdVars>>

\* The caller calls again with the same arguments and a generator that yields
\* the same sequence.
NameCallAgain ==
    /\ nPc \in {"done", "error"} /\ nCall = 1
    /\ nFirst' = <<[pc |-> nPc, name |-> nName, draws |-> nDraws]>>
    /\ nCall' = 2 /\ nPc' = "call"
    /\ nSlot' = 0 /\ nRule' = 0 /\ nName' = <<>> /\ nDraws' = 0 /\ nErr' = "none" /\ nLog' = <<>>
    /\ UNCHANGED <<nameChunks, nRace, nMale, nTraps, nDivTraps, rngTape>>
    /\ UNCHANGED <<tplVars, quizVars, chunkVars, terrVars, otherVars, thirdVars>>

---------------------------------------------------------------------------
(* parseNameChunks *)

MaxRecords == 2
\* The loop is followed for at most this many records.
MaxChunkGroups == 4

\* Strings and padding the files are written from.
RecordStrings == {<<>>, <<<<65>>>>, <<<<65>>, <<66, 67>>>>}
RecordPadding == {<<>>, <<7, 7>>}

RECURSIVE CStrings(_)
\* The strings, each with its terminating NUL.
CStrings(strings) ==
    IF strings = <<>> THEN <<>> ELSE Head(strings) \o <<0>> \o CStrings(Tail(strings))

\* Bytes the record occupies: header, strings, padding.
RecordSize(strings, pad) == 3 + Len(CStrings(strings)) + Len(pad)
\* A record on disk: u16 length (little-endian), u8 string count, the strings,
\* padding.
RecordBytes(rec) ==
    <<rec.length % 256, rec.length \div 256, Len(rec.strings)>>
    \o CStrings(rec.strings) \o rec.pad
RECURSIVE FileBytes(_)
FileBytes(recs) ==
    IF recs = <<>> THEN <<>> ELSE RecordBytes(Head(recs)) \o FileBytes(Tail(recs))

\* The length a record declares: its size, or a wrong one.
LengthKinds == {"exact", "short", "long", "zero"}
DeclaredLength(kind, size) ==
    CASE kind = "exact" -> size
      [] kind = "short" -> size - 1
      [] kind = "long" -> size + 1
      [] kind = "zero" -> 0
InputRecords ==
    { [strings |-> ss, pad |-> pd, length |-> DeclaredLength(kind, RecordSize(ss, pd))] :
        ss \in RecordStrings, pd \in RecordPadding, kind \in LengthKinds }
WellFormed(rec) == rec.length = RecordSize(rec.strings, rec.pad)

\* Bytes::getLE16
GetLE16(lo, hi) == lo + (256 * hi)

\* What a read through chunkPtr yields once it has left srcData and has not
\* faulted is whatever the memory after the buffer holds.  The parser keeps
\* such bytes as contents only, so they are kept here without a value:
\* MemoryBytes, as the last element of a string, stands for the bytes
\* std::string(stringPtr) takes from the memory after srcData up to the first
\* NUL there, however many and whichever they are (none, when that memory
\* starts with a NUL).
MemoryBytes == 256
\* The group pushed when the string count itself is read from the memory
\* after srcData: as many strings as that byte says (0 to 255), each of
\* them taken from that memory.
MemoryCount == 257
MemoryGroup == <<<<MemoryCount>>>>

RECURSIVE NulFrom(_)
\* Where std::string(stringPtr) stops within srcData: the offset of the first
\* NUL at or after offset p, or srcData.size() when the buffer has none.
NulFrom(p) ==
    IF p >= Len(cData) THEN Len(cData)
    ELSE IF cData[p + 1] = 0 THEN p
    ELSE NulFrom(p + 1)

\* std::string(stringPtr) for stringPtr = srcData.data() + p: the bytes up to
\* the NUL; without a NUL in the buffer the read goes on in the memory
\* after it.
CString(p) ==
    LET nul == NulFrom(p)
        inData == [i \in 1..(nul - p) |-> cData[p + i]]
    IN IF nul < Len(cData) THEN inData ELSE inData \o <<MemoryBytes>>

\* A stride that forgets the terminator.
NextStringOffsetNoNul(stringOffset, str) == stringOffset + Len(str)

\* stringOffset += strings.back().size() + 1;
NextStringOffset(stringOffset, str) == stringOffset + Len(str) + 1

RECURSIVE ReadStrings(_, _, _)
\* for (int i = 0; i < stringCount; i++): the strings read from
\* chunkPtr + stringOffset on and the stringOffset reached.  After a string
\* that ran past the end the offset lies past the end too, whatever the
\* length of that string.  The iterations are taken as two runs of half the
\* count each, the second from where the first ends.
ReadStrings(chunk, stringOffset, count) ==
    IF count = 0 THEN [strings |-> <<>>, next |-> stringOffset]
    ELSE IF count = 1
    THEN LET str == CString(chunk + stringOffset) IN
         [strings |-> <<str>>, next |-> NextStringOffset(stringOffset, str)]
    ELSE LET first == ReadStrings(chunk, stringOffset, count \div 2)
             rest == ReadStrings(chunk, first.next, count - (count \div 2))
         IN [strings |-> first.strings \o rest.strings, next |-> rest.next]

\* Bytes::getLE16(chunkPtr) for the header at `offset`: the first byte lies
\* in srcData; the second decides where the loop goes next, so when it lies
\* past the end it is any byte.
ChunkLengths(offset) ==
    { GetLE16(cData[offset + 1], hi) :
        hi \in (IF offset + 1 < Len(cData) THEN {cData[offset + 2]} ELSE ByteValues) }

\* const int stringCount = *(chunkPtr + 2) and the strings read for it.
ChunkStrings(offset) ==
    IF offset + 2 < Len(cData)
    THEN ReadStrings(offset, 3, cData[offset + 3]).strings
    ELSE MemoryGroup

\* The iteration for the record at `offset` reads past the end of srcData:
\* its header does, or one of its strings.
ReadsPast(offset, strings) ==
    \/ offset + 2 >= Len(cData)
    \/ \E i \in 1..Len(strings) :
          strings[i] # <<>> /\ strings[i][Len(strings[i])] = MemoryBytes

\* An advance by the bytes the header and strings took.
AdvanceByConsumed(offset, chunkLength, strings) == offset + 3 + Len(CStrings(strings))

\* offset += chunkLength;
Advance(offset, chunkLength, strings) == offset + chunkLength

ChunkIdle ==
    /\ cPc = "idle" /\ cData = <<>> /\ cOffset = 0
    /\ cTrace = <<>> /\ cLens = <<>> /\ cBeyond = 0 /\ cRecs = <<>>

ChunkStart ==
    /\ cRecs \in SeqsUpTo(InputRecords, MaxRecords)
    /\ cData = FileBytes(cRecs)
    /\ cPc = "loop" /\ cOffset = 0 /\ cTrace = <<>> /\ cLens = <<>> /\ cBeyond = 0
    /\ nameChunks = <<>>

\* One iteration of while (offset < srcData.size()).  The reads through
\* chunkPtr are not checked against the size: one that leaves srcData
\* faults, or yields what the memory holds there.
ChunkRecord ==
    /\ cPc = "loop" /\ cOffset < Len(cData)
    /\ Len(nameChunks) < MaxChunkGroups
    /\ LET strings == ChunkStrings(cOffset)
           past == ReadsPast(cOffset, strings)
       IN \/ /\ past
             /\ cPc' = "crash"
             /\ cBeyond' = cBeyond + 1
             /\ UNCHANGED <<cOffset, cTrace, cLens, nameChunks>>
          \/ \E chunkLength \in ChunkLengths(cOffset) :
                /\ nameChunks' = Append(nameChunks, strings)
                /\ cOffset' = Advance(cOffset, chunkLength, strings)
                /\ cTrace' = Append(cTrace, cOffset)
                /\ cLens' = Append(cLens, chunkLength)
                /\ cBeyond' = cBeyond + (IF past THEN 1 ELSE 0)
                /\ UNCHANGED cPc
    /\ UNCHANGED <<cData, cRecs>>
    /\ UNCHANGED <<tplVars, quizVars, nameLocals, terrVars, otherVars, thirdVars>>

\* The loop condition fails.
ChunkEnd ==
    /\ cPc = "loop" /\ cOffset >= Len(cData)
    /\ cPc' = "done"
    /\ UNCHANGED <<cData, cOffset, cTrace, cLens, cBeyond, cRecs, nameChunks>>
    /\ UNCHANGED <<tplVars, quizVars, nameLocals, terrVars, otherVars, thirdVars>>

---------------------------------------------------------------------------
(* WorldMapTerrain::getFailSafeAt *)

\* WorldMapTerrain's constants.
WIDTH == 320
HEIGHT == 200
SEA == 248
MOUNTAIN1 == 249
DESERT1 == 253
TEMPERATE1 == 254
\* i -= 12;
TerrainShift == 12
\* for (int dist = 1; dist < 200; dist++)
FailSafeLimit == 200

\* At most this many pixels of the image are not sea.
MaxLand == 2

PixelCount == WIDTH * HEIGHT

\* The index without the wraparound.
TerrainIndexNoWrap(x, y) == (x + (y * WIDTH)) - TerrainShift

\* The index lambda of getTerrainAt: 12 pixels left, wrapped once.
TerrainIndex(x, y) ==
    LET i == (x + (y * WIDTH)) - TerrainShift IN
    IF i < 0 THEN i + PixelCount
    ELSE IF i >= PixelCount THEN i - PixelCount
    ELSE i

\* this->indices.at(index), for an index in range.
IndicesAt(index) == IF index \in DOMAIN gLand THEN gLand[index] ELSE SEA

\* A ring probed above first.
RingAboveFirst(x, y, dist) ==
    <<TerrainIndex(x, y - dist), TerrainIndex(x, y + dist),
      TerrainIndex(x + dist, y), TerrainIndex(x - dist, y)>>

\* The indices of failSafePixels: below, above, right, left.
Ring(x, y, dist) ==
    <<TerrainIndex(x, y + dist), TerrainIndex(x, y - dist),
      TerrainIndex(x + dist, y), TerrainIndex(x - dist, y)>>

\* std::find_if over the four pixels: the position of the first that is not
\* sea, or 0.
FirstNotSea(ring) ==
    IF \E j \in 1..4 : IndicesAt(ring[j]) # SEA
    THEN CHOOSE j \in 1..4 : IndicesAt(ring[j]) # SEA /\ \A h \in 1..(j - 1) : IndicesAt(ring[h]) = SEA
    ELSE 0

\* Coordinates asked for: the first and the last pixel of the image, pixels
\* on its edges and inside it, and two points outside the image: one whose
\* own index is out of range, one whose first ring leaves the range.
TerrainPoints ==
    {<<0, 0>>, <<0, 100>>, <<5, 0>>, <<160, 100>>, <<319, 199>>, <<0, 600>>, <<0, 400>>}
\* Distances at which land is placed around the requested pixel.
LandDistances == {1, 2, 199}
\* The pixels at those distances from the pixel 12 to the left of (x, y), and
\* that pixel itself.
LandCandidates(x, y) ==
    LET base == (x + (y * WIDTH)) - TerrainShift IN
    { (base + k) % PixelCount :
        k \in {0} \cup UNION { {d, 0 - d, d * WIDTH, 0 - (d * WIDTH)} : d \in LandDistances } }
\* Images with at most MaxLand pixels of land among the candidates.
Images(x, y) ==
    UNION { [S -> {MOUNTAIN1, DESERT1}] :
              S \in { T \in SUBSET LandCandidates(x, y) : Cardinality(T) <= MaxLand } }

TerrainIdle ==
    /\ gPc = "idle" /\ gLand = EmptyMap /\ gX = 0 /\ gY = 0 /\ gDist = 0
    /\ gResult = 0 /\ gProbed = {}

TerrainStart ==
    /\ \E pt \in TerrainPoints : gX = pt[1] /\ gY = pt[2]
    /\ gLand \in Images(gX, gY)
    /\ gPc = "start" /\ gDist = 0 /\ gResult = 0 /\ gProbed = {}

\* const uint8_t terrainPixel = getTerrainAt(x, y);
TerrainFirst ==
    /\ gPc = "start"
    /\ LET index == TerrainIndex(gX, gY) IN
       /\ gProbed' = gProbed \cup {index}
       /\ IF ~InRange(index, PixelCount)
          THEN gPc' = "error" /\ UNCHANGED <<gResult, gDist>>
          ELSE IF IndicesAt(index) # SEA
          THEN gPc' = "done" /\ gResult' = IndicesAt(index) /\ UNCHANGED gDist
          ELSE gPc' = "scan" /\ gDist' = 1 /\ UNCHANGED gResult
    /\ UNCHANGED <<gLand, gX, gY>>
    /\ UNCHANGED <<tplVars, quizVars, nameVars, chunkVars, otherVars, thirdVars>>

\* The ring indices passed to indices.at: failSafePixels is built left to
\* right and the first at() that throws ends the function.
RingProbed(ring) ==
    { ring[j] : j \in { h \in 1..4 : \A g \in 1..(h - 1) : InRange(ring[g], PixelCount) } }

\* One iteration of the fail-safe loop.
TerrainRing ==
    /\ gPc = "scan" /\ gDist < FailSafeLimit
    /\ LET ring == Ring(gX, gY, gDist) IN
       /\ gProbed' = gProbed \cup RingProbed(ring)
       /\ IF \E j \in 1..4 : ~InRange(ring[j], PixelCount)
          THEN gPc' = "error" /\ UNCHANGED <<gResult, gDist>>
          ELSE IF FirstNotSea(ring) # 0
          THEN /\ gPc' = "done" /\ gResult' = IndicesAt(ring[FirstNotSea(ring)])
               /\ UNCHANGED gDist
          ELSE gDist' = gDist + 1 /\ UNCHANGED <<gPc, gResult>>
    /\ UNCHANGED <<gLand, gX, gY>>
    /\ UNCHANGED <<tplVars, quizVars, nameVars, chunkVars, otherVars, thirdVars>>

\* return WorldMapTerrain::TEMPERATE1;
TerrainGiveUp ==
    /\ gPc = "scan" /\ gDist >= FailSafeLimit
    /\ gPc' = "done" /\ gResult' = TEMPERATE1
    /\ UNCHANGED <<gLand, gX, gY, gDist, gProbed>>
    /\ UNCHANGED <<tplVars, quizVars, nameVars, chunkVars, otherVars, thirdVars>>

---------------------------------------------------------------------------
(* parseClasses *)

\* const int classCount = 18;
ClassCount == 18
\* classesDat.classes.size() and classesDat.choices.size().
GenerationClassCount == 18
GenerationChoiceCount == 66
\* const int choiceSize = 3;
ChoiceSize == 3

\* At most this many classes have executable values other than the usual ones.
MaxOddClasses == 1

\* The byte at an offset of CLASSES.DAT.
ClassesByte(offset) == ((offset * 7) + 3) % 256
\* The offsets among these that lie outside srcData.
Beyond(offsets) == { o \in offsets : o >= kSize }
\* The contents the memory at those offsets may have.
ClassesHeaps(offsets) == [Beyond(offsets) -> ByteValues]
\* *(srcData.data() + offset) when the read does not fault: the byte of the
\* file, or past its end the byte the memory holds.
ClassesRead(heap, offset) == IF offset < kSize THEN ClassesByte(offset) ELSE heap[offset]

\* exeData.charClasses.allowedShieldsLists and allowedWeaponsLists.
AllowedShieldsLists ==
    << <<7>>, <<7, 8, 9, 10>>, <<10, 8, 8>>, <<6>>, <<11>>, <<>>, <<8, 255>> >>
AllowedWeaponsLists == << <<0>>, <<17, 3, 3>>, <<18>>, <<255>>, <<>> >>

\* The values of one class in exeData.charClasses: allowedArmors,
\* allowedShieldsIndices, allowedWeaponsIndices, lockpickingDivisors.
ExeEntry(armor, shield, weapon, divisor) ==
    [armor |-> armor, shield |-> shield, weapon |-> weapon, divisor |-> divisor]
UsualEntry == ExeEntry(0, 0 - 1, 0 - 1, 4)
OddEntries ==
    { ExeEntry(a, 0 - 1, 0 - 1, 4) : a \in {1, 2, 3, 4, 255} }
    \cup { ExeEntry(0, s, 0 - 1, 4) : s \in (0 - 2)..(Len(AllowedShieldsLists)) \ {0 - 1} }
    \cup { ExeEntry(0, 0 - 1, w, 4) : w \in (0 - 2)..(Len(AllowedWeaponsLists)) \ {0 - 1} }
    \cup { ExeEntry(0, 0 - 1, 0 - 1, d) : d \in {0, 1, 2, 3, 7, 100, 101, 200, 201, 255} }
\* The classes that may have odd values: the first, one in the middle, the last.
OddPositions == {0, 6, ClassCount - 1}
ExeTables ==
    { [i \in 0..(ClassCount - 1) |-> IF i \in DOMAIN f THEN f[i] ELSE UsualEntry] :
        f \in UNION { [S -> OddEntries] :
                        S \in { T \in SUBSET OddPositions : Cardinality(T) <= MaxOddClasses } } }
UsualExe == [i \in 0..(ClassCount - 1) |-> UsualEntry]
\* Lengths of CLASSES.DAT around 18 + 66 * 3 bytes: one byte short, exact, one
\* byte more.
ClassFileSizes == {215, 216, 217}

\* The allowedArmors lambda; it throws for a value other than 0..3.
ArmorsThrow(value) == value \notin {0, 1, 2, 3}
\* Chain allowed for value 2 as well.
AllowedArmorsChainForTwo(value) ==
    IF value = 0 THEN <<"Leather", "Chain", "Plate">>
    ELSE IF value \in {1, 2} THEN <<"Leather", "Chain">>
    ELSE <<>>
AllowedArmors(value) ==
    IF value = 0 THEN <<"Leather", "Chain", "Plate">>
    ELSE IF value = 1 THEN <<"Leather", "Chain">>
    ELSE IF value = 2 THEN <<"Leather">>
    ELSE <<>>

ShieldIDMappings == <<"Buckler", "Round", "Kite", "Tower">>
\* The shield ids taken to start at 6.
ShieldTypeFromSix(shield) == ShieldIDMappings[((shield - 6) % 4) + 1]
\* ShieldIDMappings.at(shield - 7)
ShieldType(shield) == ShieldIDMappings[(shield - 7) + 1]
\* The allowedShields lambda; allowedShieldsLists.at and ShieldIDMappings.at throw.
ShieldsThrow(shieldIndex) ==
    /\ shieldIndex # 0 - 1
    /\ \/ ~InRange(shieldIndex, Len(AllowedShieldsLists))
       \/ \E k \in 1..Len(AllowedShieldsLists[shieldIndex + 1]) :
            ~InRange(AllowedShieldsLists[shieldIndex + 1][k] - 7, Len(ShieldIDMappings))
AllowedShields(shieldIndex) ==
    IF shieldIndex = 0 - 1 THEN <<"Buckler", "Round", "Kite", "Tower">>
    ELSE LET shieldsList == AllowedShieldsLists[shieldIndex + 1] IN
         [k \in 1..Len(shieldsList) |-> ShieldType(shieldsList[k])]

\* std::vector<int> weapons(18); std::iota(..., 0);
WeaponIDs == [k \in 1..18 |-> k - 1]
WeaponsThrow(weaponIndex) ==
    /\ weaponIndex # 0 - 1
    /\ \/ ~InRange(weaponIndex, Len(AllowedWeaponsLists))
       \/ \E k \in 1..Len(AllowedWeaponsLists[weaponIndex + 1]) :
            ~InRange(AllowedWeaponsLists[weaponIndex + 1][k], Len(WeaponIDs))
AllowedWeapons(weaponIndex) ==
    IF weaponIndex = 0 - 1 THEN WeaponIDs
    ELSE LET weaponsList == AllowedWeaponsLists[weaponIndex + 1] IN
         [k \in 1..Len(weaponsList) |-> WeaponIDs[weaponsList[k] + 1]]

\* The categoryName lambda.
CategoryName(i) == IF i < 6 THEN "Mage" ELSE IF i < 12 THEN "Thief" ELSE "Warrior"

\* The quotient taken in floating point, cut after four decimals.
LockpickingReal(divisor) == 20000 \div divisor
\* static_cast<double>(200 / divisor) / 100.0, in ten-thousandths.
Lockpicking(divisor) == (200 \div divisor) * 100

\* The CharacterClass pushed for class i; name, preferredAttributes, healthDie,
\* initialExperienceCap and the classNumberToID fields are copied from
\* exeData entry i, which `number` stands for.
ClassDefinition(i, entry, lockpicking) ==
    [number |-> i,
     allowedArmors |-> AllowedArmors(entry.armor),
     allowedShields |-> AllowedShields(entry.shield),
     allowedWeapons |-> AllowedWeapons(entry.weapon),
     categoryName |-> CategoryName(i),
     lockpicking |-> lockpicking]

ClassIdle ==
    /\ kPc = "idle" /\ kI = 0 /\ kSize = 0 /\ kExe = EmptyMap
    /\ kClasses = <<>> /\ kChoices = <<>> /\ classDefinitions = <<>>
    /\ kBeyond = {} /\ kErr = "none"

\* Entry of parseClasses on a freshly constructed MiscAssets: either the file
\* has an odd length or the executable has odd values.
ClassesStart ==
    /\ kPc = "ids" /\ kI = 0
    /\ kSize \in ClassFileSizes /\ kExe \in ExeTables
    /\ (kExe = UsualExe \/ kSize = 216)
    /\ kClasses = <<>> /\ kChoices = <<>> /\ classDefinitions = <<>>
    /\ kBeyond = {} /\ kErr = "none"

\* A read through a raw pointer of the given offsets: outside srcData it
\* either faults or yields whatever lies there.
ClassesFault(offsets) ==
    /\ Beyond(offsets) # {}
    /\ kPc' = "crash" /\ kErr' = "SIGSEGV"
    /\ kBeyond' = kBeyond \cup Beyond(offsets)
    /\ UNCHANGED <<kI, kSize, kExe, kClasses, kChoices, classDefinitions>>

\* One iteration of the class id loop.
ClassIdStep ==
    /\ kPc = "ids"
    /\ \/ ClassesFault({kI})
       \/ /\ \E heap \in ClassesHeaps({kI}) :
                kClasses' = Append(kClasses, ClassesRead(heap, kI))
          /\ kBeyond' = kBeyond \cup Beyond({kI})
          /\ IF kI + 1 < GenerationClassCount
             THEN kI' = kI + 1 /\ UNCHANGED kPc
             ELSE kI' = 0 /\ kPc' = "choices"
          /\ UNCHANGED <<kSize, kExe, kChoices, classDefinitions, kErr>>
    /\ UNCHANGED <<thirdVars, firstVars, spellVars, gameVars, makerVars>>

\* One iteration of the choices loop.
ChoiceStep ==
    /\ kPc = "choices"
    /\ LET src == GenerationClassCount + (ChoiceSize * kI) IN
       \/ ClassesFault({src, src + 1, src + 2})
       \/ /\ \E heap \in ClassesHeaps({src, src + 1, src + 2}) :
                kChoices' = Append(kChoices, [a |-> ClassesRead(heap, src),
                                              b |-> ClassesRead(heap, src + 1),
                                              c |-> ClassesRead(heap, src + 2)])
          /\ kBeyond' = kBeyond \cup Beyond({src, src + 1, src + 2})
          /\ IF kI + 1 < GenerationChoiceCount
             THEN kI' = kI + 1 /\ UNCHANGED kPc
             ELSE kI' = 0 /\ kPc' = "defs"
          /\ UNCHANGED <<kSize, kExe, kClasses, classDefinitions, kErr>>
    /\ UNCHANGED <<thirdVars, firstVars, spellVars, gameVars, makerVars>>

\* One iteration of the class definition loop.
ClassDefStep ==
    /\ kPc = "defs"
    /\ LET entry == kExe[kI]
           push(lockpicking) ==
               /\ classDefinitions' = Append(classDefinitions, ClassDefinition(kI, entry, lockpicking))
               /\ IF kI + 1 < ClassCount
                  THEN kI' = kI + 1 /\ UNCHANGED kPc
                  ELSE kI' = kI + 1 /\ kPc' = "done"
               /\ UNCHANGED kErr
           fail(what) ==
               /\ kPc' = (IF what = "SIGFPE" THEN "crash" ELSE "error") /\ kErr' = what
               /\ UNCHANGED <<kI, classDefinitions>>
       IN IF ArmorsThrow(entry.armor) THEN fail("runtime_error")
          ELSE IF ShieldsThrow(entry.shield) \/ WeaponsThrow(entry.weapon) THEN fail("out_of_range")
          ELSE IF entry.divisor = 0
          \* 200 / 0: the division traps, or yields some quotient.
          THEN fail("SIGFPE") \/ push(0)
          ELSE push(Lockpicking(entry.divisor))
    /\ UNCHANGED <<kSize, kExe, kClasses, kChoices, kBeyond>>
    /\ UNCHANGED <<thirdVars, firstVars, spellVars, gameVars, makerVars>>

---------------------------------------------------------------------------
(* parseStandardSpells *)

\* const size_t spellSize = 85; const size_t paramSize = 6;
SpellSize == 85
ParamSize == 6
\* standardSpells.size(), spell.params.size() and spell.name.size().
SpellCount == 128
ParamCount == 6
SpellNameSize == 33

\* The byte at an offset of SPELLSG.65.
SpellsByte(offset) == ((offset * 11) + 5) % 256
\* *(srcData.data() + offset) when the read does not fault: the byte of the
\* file, or past its end the byte the memory holds.
SpellsRead(heap, offset) == IF offset < sSize THEN SpellsByte(offset) ELSE heap[offset]
\* Bytes::getLE16(srcData.data() + offset)
SpellsLE16(heap, offset) == GetLE16(SpellsRead(heap, offset), SpellsRead(heap, offset + 1))
\* Lengths of SPELLSG.65 around 128 * 85 bytes: one byte short, exact, one
\* byte more.
SpellFileSizes == {10879, 10880, 10881}

\* offset += spellSize;
SpellStride(offset) == offset + SpellSize

\* The spell decoded from the record at spellPtr = srcData.data() + offset.
SpellAt(heap, offset) ==
    [params |-> [p \in 1..ParamCount |->
                    [q \in 1..3 |-> SpellsLE16(heap, offset + ((p - 1) * ParamSize) + ((q - 1) * 2))]],
     targetType |-> SpellsRead(heap, offset + 36),
     unknown |-> SpellsRead(heap, offset + 37),
     element |-> SpellsRead(heap, offset + 38),
     flags |-> SpellsLE16(heap, offset + 39),
     effects |-> [i \in 1..3 |-> SpellsRead(heap, offset + 41 + (i - 1))],
     subEffects |-> [i \in 1..3 |-> SpellsRead(heap, offset + 44 + (i - 1))],
     affectedAttributes |-> [i \in 1..3 |-> SpellsRead(heap, offset + 47 + (i - 1))],
     cost |-> SpellsLE16(heap, offset + 50),
     name |-> [i \in 1..SpellNameSize |-> SpellsRead(heap, offset + 52 + (i - 1))]]
\* The offsets read for that spell: the parameters, the bytes 36..51 and the name.
SpellOffsets(offset) ==
    { offset + b : b \in 0..((ParamCount * ParamSize) - 1) }
    \cup { offset + b : b \in 36..51 }
    \cup { offset + 52 + b : b \in 0..(SpellNameSize - 1) }

SpellsIdle ==
    /\ sPc = "idle" /\ sOffset = 0 /\ sSize = 0
    /\ standardSpells = <<>> /\ sBeyond = {}

SpellsStart ==
    /\ sPc = "loop" /\ sOffset = 0
    /\ sSize \in SpellFileSizes
    /\ standardSpells = <<>> /\ sBeyond = {}

\* One iteration of the loop over standardSpells.
SpellStep ==
    /\ sPc = "loop"
    /\ LET beyond == { o \in SpellOffsets(sOffset) : o >= sSize } IN
       /\ sBeyond' = sBeyond \cup beyond
       /\ \/ /\ beyond # {}
             /\ sPc' = "crash"
             /\ UNCHANGED <<sOffset, standardSpells>>
          \/ /\ \E heap \in [beyond -> ByteValues] :
                   standardSpells' = Append(standardSpells, SpellAt(heap, sOffset))
             /\ sOffset' = SpellStride(sOffset)
             /\ sPc' = IF Len(standardSpells) + 1 < SpellCount THEN "loop" ELSE "done"
    /\ UNCHANGED sSize
    /\ UNCHANGED <<thirdVars, firstVars, classVars, gameVars, makerVars>>

---------------------------------------------------------------------------
(* Game::Game, MiscAssets::init and the accessors *)

\* At most this many of the files are missing.
MaxMissing == 1
\* init is called at most this many times.
MaxInits == 2

\* The steps of Game::Game, in order.
GameSteps ==
    <<"initOptions", "arenaPath", "vfs", "audioManager", "renderer", "textureManager",
      "miscAssets", "icon", "panel", "music">>

\* The steps with the class definitions ahead of the executable data.
InitStepsClassesFirst ==
    <<"parseClasses", "parseExecutableData", "parseTemplateDat", "parseQuestionTxt",
      "parseDungeonTxt", "parseArtifactText", "parseTradeText", "parseNameChunks",
      "parseStandardSpells", "parseSpellMakerDescriptions", "cityDataFile",
      "parseWorldMapMasks", "worldMapTerrain">>
\* The steps of MiscAssets::init, in order.
InitSteps ==
    <<"parseExecutableData", "parseTemplateDat", "parseQuestionTxt", "parseClasses",
      "parseDungeonTxt", "parseArtifactText", "parseTradeText", "parseNameChunks",
      "parseStandardSpells", "parseSpellMakerDescriptions", "cityDataFile",
      "parseWorldMapMasks", "worldMapTerrain">>

\* One file read into one member: by assignment of every element, by
\* push_back, or by std::map::insert, which keeps an entry already present.
Load(file, table, how, count) == [file |-> file, table |-> table, how |-> how, count |-> count]
\* What a step opens and fills, in order.  ExeData::init and
\* CityDataFile::init fill their own objects from A.EXE and CITYDATA.00.
StepLoads(step) ==
    CASE step = "parseExecutableData" -> <<Load("A.EXE", "exeData", "assign", 1)>>
      [] step = "parseTemplateDat" -> <<Load("TEMPLATE.DAT", "templateDat", "insert", 2)>>
      [] step = "parseQuestionTxt" -> <<Load("QUESTION.TXT", "questionTxt", "push_back", 2)>>
      [] step = "parseClasses" ->
           <<Load("CLASSES.DAT", "classesDat", "assign", 1),
             Load("CLASSES.DAT", "classDefinitions", "push_back", ClassCount)>>
      [] step = "parseDungeonTxt" -> <<Load("DUNGEON.TXT", "dungeonTxt", "push_back", 2)>>
      [] step = "parseArtifactText" ->
           <<Load("ARTFACT1.DAT", "artifactTavernText1", "assign", 16),
             Load("ARTFACT2.DAT", "artifactTavernText2", "assign", 16)>>
      [] step = "parseTradeText" ->
           <<Load("EQUIP.DAT", "tradeText.equipment", "assign", 1),
             Load("MUGUILD.DAT", "tradeText.magesGuild", "assign", 1),
             Load("SELLING.DAT", "tradeText.selling", "assign", 1),
             Load("TAVERN.DAT", "tradeText.tavern", "assign", 1)>>
      [] step = "parseNameChunks" -> <<Load("NAMECHNK.DAT", "nameChunks", "push_back", 58)>>
      [] step = "parseStandardSpells" -> <<Load("SPELLSG.65", "standardSpells", "assign", 1)>>
      [] step = "parseSpellMakerDescriptions" ->
           <<Load("SPELLMKR.TXT", "spellMakerDescriptions", "assign", 1)>>
      [] step = "cityDataFile" -> <<Load("CITYDATA.00", "cityDataFile", "assign", 1)>>
      [] step = "parseWorldMapMasks" -> <<Load("TAMRIEL.MNU", "worldMapMasks", "assign", 10)>>
      [] step = "worldMapTerrain" -> <<Load("TERRAIN.IMG", "worldMapTerrain", "assign", 1)>>

AllLoads == UNION { { StepLoads(InitSteps[k])[j] : j \in 1..Len(StepLoads(InitSteps[k])) } :
                      k \in 1..Len(InitSteps) }
\* The members kept as record lists; nameChunks is the variable of that name.
TableNames == { l.table : l \in AllLoads } \ {"nameChunks"}
GameFiles == { l.file : l \in AllLoads } \cup {"GLOBAL.BSA"}

\* The records a file decodes to.
Records(file, count) == [k \in 1..count |-> <<file, k>>]
\* The contents of NAMECHNK.DAT.
NameChunkFile == ChunkTable(58, MaxGroupSize)
\* The values the generator passed to generateNpcName yields.
GameTape == <<25, 76, 175, 26, 75, 25, 76, 26, 175, 75, 25, 26>>
GameRaceIDs == {0, 7, 24}

\* A stream is opened whether the file exists or not.
OpenNeverFails(file) == FALSE
\* stream == nullptr after VFS::Manager::get().open(filename)
OpenFails(file) == ~aVfs \/ file \in aMissing

\* One member after a load.
Loaded(old, load) ==
    LET recs == Records(load.file, load.count) IN
    IF load.how = "assign" THEN recs
    ELSE IF load.how = "push_back" THEN old \o recs
    ELSE old \o SelectSeq(recs, LAMBDA r : \A k \in 1..Len(old) : old[k] # r)

RECURSIVE RunLoads(_, _)
\* The members after the loads of a step, up to the first file that cannot be
\* opened (DebugAssert ends the program there).
RunLoads(tables, loads) ==
    IF loads = <<>> THEN [tables |-> tables, ok |-> TRUE]
    ELSE IF OpenFails(Head(loads).file) THEN [tables |-> tables, ok |-> FALSE]
    ELSE IF Head(loads).table \notin DOMAIN tables THEN RunLoads(tables, Tail(loads))
    ELSE RunLoads([tables EXCEPT ![Head(loads).table] = Loaded(@, Head(loads))], Tail(loads))

\* The key is looked up with operator[], which inserts a missing key.
TemplateFindInserting(tables, key) ==
    IF \E k \in 1..Len(tables["templateDat"]) : tables["templateDat"][k] = key
    THEN tables
    ELSE [tables EXCEPT !["templateDat"] = Append(@, key)]
\* this->templateDat.find(key) leaves the map as it is.
TemplateFind(tables, key) == tables

GameIdle ==
    /\ aPc = "idle" /\ aBoot = 0 /\ aStep = 0 /\ aMissing = {} /\ aVfs = FALSE
    /\ aTables = EmptyMap /\ aLog = <<>> /\ aPanel = FALSE /\ aInits = 0
    /\ aReturned = <<>>

\* Entry of Game::Game.
GameStart ==
    /\ aPc = "boot" /\ aBoot = 1 /\ aStep = 0
    /\ aMissing \in { S \in SUBSET GameFiles : Cardinality(S) <= MaxMissing }
    /\ aVfs = FALSE
    /\ aTables = [t \in TableNames |-> <<>>]
    /\ aLog = <<>> /\ aPanel = FALSE /\ aInits = 0 /\ aReturned = <<>>

\* generateNpcName is not running.
NameAtRest == nPc \in {"idle", "done", "error"}

\* One step of Game::Game other than the run of miscAssets.init().
GameStep ==
    /\ aPc = "boot"
    /\ LET step == GameSteps[aBoot] IN
       /\ aLog' = Append(aLog, step)
       /\ aVfs' = (aVfs \/ step = "vfs")
       /\ aPanel' = (aPanel \/ step = "panel")
       /\ IF step = "arenaPath" /\ "GLOBAL.BSA" \in aMissing
          THEN aPc' = "aborted" /\ UNCHANGED <<aBoot, aStep>>
          ELSE IF step = "miscAssets"
          THEN aPc' = "init" /\ aStep' = 1 /\ UNCHANGED aBoot
          ELSE /\ aBoot' = aBoot + 1 /\ UNCHANGED aStep
               /\ aPc' = IF aBoot < Len(GameSteps) THEN "boot" ELSE "running"
    /\ UNCHANGED <<aMissing, aTables, aInits, aReturned>>
    /\ UNCHANGED <<thirdVars, firstVars, classVars, spellVars, makerVars>>

\* One step of MiscAssets::init; after the last one init returns to its caller.
InitStep ==
    /\ aPc = "init"
    /\ LET step == InitSteps[aStep]
           run == RunLoads(aTables, StepLoads(step))
       IN
       /\ aLog' = Append(aLog, step)
       /\ aTables' = run.tables
       /\ nameChunks' = IF step = "parseNameChunks" /\ run.ok
                        THEN nameChunks \o NameChunkFile ELSE nameChunks
       /\ IF ~run.ok
          THEN aPc' = "aborted" /\ UNCHANGED <<aBoot, aStep, aInits>>
          ELSE IF aStep < Len(InitSteps)
          THEN aStep' = aStep + 1 /\ UNCHANGED <<aPc, aBoot, aInits>>
          ELSE /\ aStep' = 0 /\ aInits' = aInits + 1
               /\ IF aBoot <= Len(GameSteps)
                  THEN aPc' = "boot" /\ aBoot' = aBoot + 1
                  ELSE aPc' = "running" /\ UNCHANGED aBoot
    /\ UNCHANGED <<aMissing, aVfs, aPanel, aReturned>>
    /\ UNCHANGED <<tplVars, quizVars, nameLocals, chunkVars, terrVars, classVars, spellVars, makerVars,
                 thirdVars>>

\* init is public: a caller initializes the assets again.
InitAgain ==
    /\ aPc = "running" /\ NameAtRest /\ aInits < MaxInits
    /\ aPc' = "init" /\ aStep' = 1
    /\ aLog' = Append(aLog, "miscAssets")
    /\ UNCHANGED <<aBoot, aMissing, aVfs, aTables, aPanel, aInits, aReturned>>
    /\ UNCHANGED <<thirdVars, firstVars, classVars, spellVars, makerVars>>

\* One of the accessors that return a member by reference.
Accessor ==
    /\ aPc = "running" /\ NameAtRest
    /\ \E t \in TableNames : aReturned' = <<t, aTables[t]>>
    /\ UNCHANGED <<aPc, aBoot, aStep, aMissing, aVfs, aTables, aLog, aPanel, aInits>>
    /\ UNCHANGED <<thirdVars, firstVars, classVars, spellVars, makerVars>>

\* getTemplateDatText(key); a key that is not in the map ends the program.
GetTemplateDatText ==
    /\ aPc = "running" /\ NameAtRest
    /\ \E k \in 1..3 :
         LET key == <<"TEMPLATE.DAT", k>>
             found == \E j \in 1..Len(aTables["templateDat"]) : aTables["templateDat"][j] = key
         IN /\ aTables' = TemplateFind(aTables, key)
            /\ IF found
               THEN aReturned' = <<"templateDat", key>> /\ UNCHANGED aPc
               ELSE aPc' = "aborted" /\ UNCHANGED aReturned
    /\ UNCHANGED <<aBoot, aStep, aMissing, aVfs, aLog, aPanel, aInits>>
    /\ UNCHANGED <<thirdVars, firstVars, classVars, spellVars, makerVars>>

\* A caller calls generateNpcName; NameCall, NameRuleStep and NameReturn run it.
GameGenerateNpcName ==
    /\ aPc = "running" /\ nPc = "idle"
    /\ nRace' \in GameRaceIDs /\ nMale' \in BOOLEAN
    /\ rngTape' = GameTape /\ nCall' = 1 /\ nPc' = "call"
    /\ UNCHANGED <<nameChunks, nTraps, nDivTraps, nSlot, nRule, nName, nDraws, nErr, nLog, nFirst>>
    /\ UNCHANGED <<tplVars, quizVars, chunkVars, terrVars, otherVars, thirdVars>>

---------------------------------------------------------------------------
(* parseSpellMakerDescriptions *)

\* The text has at most this many lines.
MaxMakerLines == 3
\* std::array<std::string, 43> spellMakerDescriptions
DescriptionCount == 43

\* The character '\v' (0x0B), written as its escape sequence.
VerticalTab == "\\v"

\* The lines SPELLMKR.TXT is written from: index lines with an index in
\* range, out of range, followed by a carriage return, after a vertical tab,
\* negative, not a number and absent; text lines; an empty line.
MakerLines ==
    { <<"#", "0", "0">>, <<"#", "4", "2">>, <<"#", "4", "3">>, <<"#", "4", "\r">>,
      <<"#", VerticalTab, "7">>,
      <<"#", "-", "1">>, <<"#", "a", "0">>, <<"#">>, <<"#", "1">>,
      <<"a">>, <<"b", "\r">>, <<>> }

RECURSIVE MakerText(_)
\* The text with these lines, each ended by a newline.
MakerText(lines) ==
    IF lines = <<>> THEN <<>> ELSE Head(lines) \o <<"\n">> \o MakerText(Tail(lines))

\* std::isspace
IsSpace(ch) == ch \in {" ", "\t", "\n", VerticalTab, "\f", "\r"}
DigitValue(ch) == (CHOOSE k \in 1..10 : <<"0", "1", "2", "3", "4", "5", "6", "7", "8", "9">>[k] = ch) - 1

RECURSIVE SkipSpace(_)
SkipSpace(s) == IF s # <<>> /\ IsSpace(Head(s)) THEN SkipSpace(Tail(s)) ELSE s
RECURSIVE DigitsValue(_, _)
\* The value of the digits s starts with, after the value acc read so far.
DigitsValue(s, acc) ==
    IF s # <<>> /\ IsDigit(Head(s)) THEN DigitsValue(Tail(s), (acc * 10) + DigitValue(Head(s)))
    ELSE acc
\* What is left of s after leading white space and one sign.
Unsigned(s) ==
    LET t == SkipSpace(s) IN IF t # <<>> /\ Head(t) \in {"+", "-"} THEN Tail(t) ELSE t
\* std::stoi throws std::invalid_argument when no digit follows the white
\* space and the sign.
StoiThrows(s) == Unsigned(s) = <<>> \/ ~IsDigit(Head(Unsigned(s)))
\* std::stoi(s)
Stoi(s) ==
    LET t == SkipSpace(s)
        value == DigitsValue(Unsigned(s), 0)
    IN IF t # <<>> /\ Head(t) = "-" THEN 0 - value ELSE value

MakerIdle ==
    /\ mPc = "idle" /\ mRest = <<>> /\ mState = <<>> /\ spellMakerDescriptions = EmptyMap
    /\ mErr = "none" /\ mInput = <<>> /\ mStopped = "no"

MakerStart ==
    /\ mPc = "loop"
    /\ mInput \in SeqsUpTo(MakerLines, MaxMakerLines)
    /\ mRest = MakerText(mInput)
    /\ mState = <<>> /\ spellMakerDescriptions = EmptyMap
    /\ mErr = "none" /\ mStopped = "no"

\* One iteration of while (std::getline(ss, line)).
MakerLine ==
    /\ mPc = "loop" /\ mRest # <<>>
    /\ LET line == GetLine(mRest)
           fail(what) == mPc' = "error" /\ mErr' = what /\ UNCHANGED mStopped
       IN
       /\ mRest' = AfterLine(mRest)
       /\ IF Len(line) = 0
          THEN UNCHANGED <<mPc, mState, spellMakerDescriptions, mErr, mStopped>>
          ELSE IF Head(line) = "#"
          THEN IF mState # <<>> /\ ~InRange(mState[1].index, DescriptionCount)
               THEN \* this->spellMakerDescriptions.at(state->index) throws
                    fail("out_of_range") /\ UNCHANGED <<mState, spellMakerDescriptions>>
               ELSE /\ spellMakerDescriptions' =
                         IF mState # <<>>
                         THEN (mState[1].index :> mState[1].str) @@ spellMakerDescriptions
                         ELSE spellMakerDescriptions
                    /\ IF Len(line) >= 3
                       THEN IF StoiThrows(SubSeq(line, 2, 3))
                            THEN fail("invalid_argument") /\ mState' = <<>>
                            ELSE /\ mState' = <<[index |-> Stoi(SubSeq(line, 2, 3)), str |-> <<>>]>>
                                 /\ UNCHANGED <<mPc, mErr, mStopped>>
                       ELSE \* break
                            /\ mPc' = "done" /\ mStopped' = "break" /\ mState' = <<>>
                            /\ UNCHANGED mErr
          ELSE IF mState = <<>>
          THEN \* state->str with state == nullptr: the write through the null
               \* pointer faults.
               /\ mPc' = "crash" /\ mErr' = "SIGSEGV"
               /\ UNCHANGED <<mState, spellMakerDescriptions, mStopped>>
          ELSE /\ mState' = <<[mState[1] EXCEPT !.str = @ \o line]>>
               /\ UNCHANGED <<mPc, spellMakerDescriptions, mErr, mStopped>>
    /\ UNCHANGED mInput
    /\ UNCHANGED <<thirdVars, firstVars, classVars, spellVars, gameVars>>

\* getline fails at the end of the text and the function returns.
MakerEnd ==
    /\ mPc = "loop" /\ mRest = <<>>
    /\ mPc' = "done" /\ mStopped' = "eof"
    /\ UNCHANGED <<mRest, mState, spellMakerDescriptions, mErr, mInput>>
    /\ UNCHANGED <<thirdVars, firstVars, classVars, spellVars, gameVars>>

---------------------------------------------------------------------------
(* parseWorldMapMasks *)

\* const int startOffset = 0x87D5;
StartOffset == 34773
MaskCount == 10

Rect(x, y, width, height) == [x |-> x, y |-> y, width |-> width, height |-> height]
\* const std::array<Rect, 10> MaskRects; the last one is the "Exit" button.
MaskRects ==
    <<Rect(37, 32, 86, 57), Rect(47, 53, 90, 62), Rect(113, 29, 88, 53),
      Rect(190, 31, 102, 93), Rect(31, 131, 65, 52), Rect(100, 118, 61, 55),
      Rect(144, 119, 50, 57), Rect(204, 116, 67, 67), Rect(103, 72, 131, 84),
      Rect(279, 188, 37, 11)>>

\* WorldMapMask::getAdjustedWidth: the bytes of one row of `width` bits.
GetAdjustedWidth(width) == (width + 7) \div 8

\* A byte count taken over the bits of the whole rectangle.
MaskByteCountPacked(rect) == ((rect.width * rect.height) + 7) \div 8

\* const int byteCount = getAdjustedWidth(rect.getWidth()) * rect.getHeight();
MaskByteCount(rect) == GetAdjustedWidth(rect.width) * rect.height

RECURSIVE MaskBytesBefore(_)
\* The bytes of the masks 1..i of the table.
MaskBytesBefore(i) ==
    IF i = 0 THEN 0 ELSE MaskBytesBefore(i - 1) + MaskByteCount(MaskRects[i])

\* The byte at a position of TAMRIEL.MNU.
MasksByte(pos) == ((pos * 7) + wSeed) % 256
\* A byte of srcData when the read does not fault: the byte of the file, or
\* past its end the byte the memory holds.
MasksRead(heap, pos) == IF pos < wSize THEN MasksByte(pos) ELSE heap[pos]
\* Lengths of TAMRIEL.MNU around the end of the mask data: one byte short,
\* exact, one byte more.
MaskFileSizes ==
    {StartOffset + MaskBytesBefore(MaskCount) - 1,
     StartOffset + MaskBytesBefore(MaskCount), StartOffset + MaskBytesBefore(MaskCount) + 1}

MasksIdle ==
    /\ wPc = "idle" /\ wOffset = 0 /\ wSize = 0 /\ wSeed = 0
    /\ worldMapMasks = <<>> /\ wBeyond = {} /\ wFrom = <<>>

MasksStart ==
    /\ wPc = "loop" /\ wOffset = 0
    /\ wSize \in MaskFileSizes /\ wSeed \in {0, 1, 2}
    /\ worldMapMasks = <<>> /\ wBeyond = {} /\ wFrom = <<>>

\* One iteration of the loop over worldMapMasks.  Iterators past
\* srcData.end() are undefined: the copy faults or yields other memory.
MaskStep ==
    /\ wPc = "loop"
    /\ LET rect == MaskRects[Len(worldMapMasks) + 1]
           byteCount == MaskByteCount(rect)
           maskStart == StartOffset + wOffset
           maskEnd == maskStart + byteCount
           beyond == { pos \in maskStart..(maskEnd - 1) : pos >= wSize }
       IN \/ /\ beyond # {}
             /\ wPc' = "crash"
             /\ wBeyond' = wBeyond \cup beyond
             /\ UNCHANGED <<wOffset, worldMapMasks, wFrom>>
          \/ /\ \E heap \in [beyond -> ByteValues] :
                   worldMapMasks' =
                       Append(worldMapMasks,
                              [data |-> [j \in 1..byteCount |-> MasksRead(heap, maskStart + j - 1)],
                               rect |-> rect])
             /\ wBeyond' = wBeyond \cup beyond
             /\ wFrom' = Append(wFrom, maskStart)
             /\ wOffset' = wOffset + byteCount
             /\ wPc' = IF Len(worldMapMasks) + 1 < MaskCount THEN "loop" ELSE "done"
    /\ UNCHANGED <<wSize, wSeed>>
    /\ UNCHANGED <<firstVars, otherVars, panelVars, entryVars>>

---------------------------------------------------------------------------
(* Game: setPanel, pushSubPanel, popSubPanel, handlePanelChanges *)

\* At most this many panels are created after the default panel.
MaxPanels == 4

PanelsIdle ==
    /\ pPc = "idle" /\ panel = 0 /\ subPanels = <<>>
    /\ nextPanel = 0 /\ nextSubPanel = 0 /\ requestedSubPanelPop = FALSE
    /\ pActive = 0 /\ pFresh = 1 /\ pDestroyed = {} /\ pCall = "none"

\* The end of Game::Game: the default panel, nothing requested.
PanelsStart ==
    /\ pPc = "frame" /\ panel = 1 /\ subPanels = <<>>
    /\ nextPanel = 0 /\ nextSubPanel = 0 /\ requestedSubPanelPop = FALSE
    /\ pActive = 0 /\ pFresh = 2 /\ pDestroyed = {} /\ pCall = "none"

\* The panel events and ticks go to: the top sub-panel if there is one,
\* else the main panel.
ActivePanel == IF Len(subPanels) > 0 THEN Last(subPanels) ELSE panel

\* A unique_ptr that is assigned over destroys the panel it held.
Released(ptr) == IF ptr = 0 THEN {} ELSE {ptr}

\* handleEvents and tick call into the active panel.
PanelDispatch ==
    /\ pPc = "frame"
    /\ pPc' = "handling"
    /\ pActive' = ActivePanel
    /\ pCall' \in {"handleEvent", "tick"}
    /\ UNCHANGED <<panel, subPanels, nextPanel, nextSubPanel, requestedSubPanelPop,
                   pFresh, pDestroyed>>
    /\ UNCHANGED <<firstVars, otherVars, maskVars, entryVars>>

\* Game::setPanel, called by the panel that is running.
SetPanel ==
    /\ pPc = "handling" /\ pFresh <= MaxPanels + 1
    /\ nextPanel' = pFresh
    /\ pFresh' = pFresh + 1
    /\ pDestroyed' = pDestroyed \cup Released(nextPanel)
    /\ pCall' = "setPanel"
    /\ UNCHANGED <<pPc, panel, subPanels, nextSubPanel, requestedSubPanelPop, pActive>>
    /\ UNCHANGED <<firstVars, otherVars, maskVars, entryVars>>

\* Game::pushSubPanel
PushSubPanel ==
    /\ pPc = "handling" /\ pFresh <= MaxPanels + 1
    /\ nextSubPanel' = pFresh
    /\ pFresh' = pFresh + 1
    /\ pDestroyed' = pDestroyed \cup Released(nextSubPanel)
    /\ pCall' = "pushSubPanel"
    /\ UNCHANGED <<pPc, panel, subPanels, nextPanel, requestedSubPanelPop, pActive>>
    /\ UNCHANGED <<firstVars, otherVars, maskVars, entryVars>>

\* A popSubPanel that removes the top sub-panel at once.
PopSubPanelAtOnce ==
    /\ pPc = "handling" /\ subPanels # <<>>
    /\ subPanels' = Front(subPanels)
    /\ pDestroyed' = pDestroyed \cup {Last(subPanels)}
    /\ pCall' = "popSubPanel"
    /\ UNCHANGED <<pPc, panel, nextPanel, nextSubPanel, requestedSubPanelPop, pActive, pFresh>>
    /\ UNCHANGED <<firstVars, otherVars, maskVars, entryVars>>

\* Game::popSubPanel: the two DebugAsserts, then the request.
PopSubPanel ==
    /\ pPc = "handling"
    /\ pCall' = "popSubPanel"
    /\ IF requestedSubPanelPop \/ Len(subPanels) = 0
       THEN pPc' = "aborted" /\ UNCHANGED requestedSubPanelPop
       ELSE requestedSubPanelPop' = TRUE /\ UNCHANGED pPc
    /\ UNCHANGED <<panel, subPanels, nextPanel, nextSubPanel, pActive, pFresh, pDestroyed>>
    /\ UNCHANGED <<firstVars, otherVars, maskVars, entryVars>>

\* Game::handlePanelChanges, called when the panel's handleEvent or tick has
\* returned.  pop_back on an empty vector is undefined.
HandlePanelChanges ==
    /\ pPc = "handling"
    /\ pCall' = "handlePanelChanges"
    /\ pActive' = 0
    /\ IF requestedSubPanelPop /\ subPanels = <<>>
       THEN /\ pPc' = "crash"
            /\ UNCHANGED <<panel, subPanels, nextPanel, nextSubPanel, requestedSubPanelPop,
                           pDestroyed>>
       ELSE LET popped == IF requestedSubPanelPop THEN Front(subPanels) ELSE subPanels
                gone == IF requestedSubPanelPop THEN {Last(subPanels)} ELSE {}
            IN /\ pPc' = "frame"
               /\ requestedSubPanelPop' = FALSE
               /\ subPanels' = IF nextSubPanel # 0 THEN Append(popped, nextSubPanel) ELSE popped
               /\ nextSubPanel' = 0
               /\ panel' = IF nextPanel # 0 THEN nextPanel ELSE panel
               /\ nextPanel' = 0
               /\ pDestroyed' = pDestroyed \cup gone
                                 \cup (IF nextPanel # 0 THEN {panel} ELSE {})
    /\ UNCHANGED pFresh
    /\ UNCHANGED <<firstVars, otherVars, maskVars, entryVars>>

---------------------------------------------------------------------------
(* ChooseNamePanel::handleEvent *)

\* const int ChooseNamePanel::MAX_NAME_LENGTH = 25;
MAX_NAME_LENGTH == 25
\* Letters other than 'a' are typed only while the name is shorter than this.
MaxVaried == 2

\* SDL key-down events for a key, text-input events for the first byte of
\* their text, and any other event.
KeyDown(key) == [type |-> "SDL_KEYDOWN", key |-> key, text |-> 0]
TextInput(code) == [type |-> "SDL_TEXTINPUT", key |-> "none", text |-> code]
EntryKeys == {"SDLK_ESCAPE", "SDLK_RETURN", "SDLK_KP_ENTER", "SDLK_BACKSPACE",
              "SDLK_KP_BACKSPACE", "SDLK_a"}
\* ' ', 'A', 'Z', 'a', 'z', and NUL, '0', '@', '[', '`', '{' and a byte of a
\* multi-byte character.
EntryCodes == {32, 65, 90, 97, 122, 0, 48, 64, 91, 96, 123, 195}
EntryEvents ==
    { KeyDown(k) : k \in EntryKeys } \cup { TextInput(c) : c \in EntryCodes }
    \cup { [type |-> "SDL_MOUSEMOTION", key |-> "none", text |-> 0] }

\* inputManager.keyPressed(e, keycode)
KeyPressed(e, keycode) == e.type = "SDL_KEYDOWN" /\ e.key = keycode

\* A test that lets the characters next to the letters through.
CharIsAllowedWide(c) == (c = 32) \/ ((c >= 64) /\ (c <= 91)) \/ ((c >= 96) /\ (c <= 123))

\* charIsAllowed
CharIsAllowed(c) == (c = 32) \/ ((c >= 65) /\ (c <= 90)) \/ ((c >= 97) /\ (c <= 122))

EntryIdle ==
    /\ ePc = "idle" /\ eName = <<>> /\ eShown = <<>> /\ eAccepted = <<>>
    /\ eLast = [type |-> "none", key |-> "none", text |-> 0]

\* After the constructor: an empty name, an empty text box.
EntryStart ==
    /\ ePc = "input" /\ eName = <<>> /\ eShown = <<>> /\ eAccepted = <<>>
    /\ eLast = [type |-> "none", key |-> "none", text |-> 0]

\* ChooseNamePanel::handleEvent(e)
EntryHandleEvent ==
    /\ ePc = "input"
    /\ \E e \in EntryEvents :
        /\ (e.type = "SDL_TEXTINPUT" /\ CharIsAllowed(e.text) /\ e.text # 97)
              => Len(eName) < MaxVaried
        /\ eLast' = e
        /\ LET escapePressed == KeyPressed(e, "SDLK_ESCAPE")
               enterPressed == KeyPressed(e, "SDLK_RETURN") \/ KeyPressed(e, "SDLK_KP_ENTER")
               backspacePressed == KeyPressed(e, "SDLK_BACKSPACE")
                                   \/ KeyPressed(e, "SDLK_KP_BACKSPACE")
               letterReceived == e.type = "SDL_TEXTINPUT"
           IN IF escapePressed
              THEN \* backToClassButton: setPanel<ChooseClassPanel>
                   /\ ePc' = "class"
                   /\ UNCHANGED <<eName, eShown, eAccepted>>
              ELSE IF enterPressed /\ Len(eName) > 0
              THEN \* acceptButton: setPanel<ChooseGenderPanel>(game, charClass, name)
                   /\ ePc' = "gender"
                   /\ eAccepted' = Append(eAccepted, eName)
                   /\ UNCHANGED <<eName, eShown>>
              ELSE IF backspacePressed /\ Len(eName) > 0
              THEN /\ eName' = Front(eName)
                   /\ eShown' = eName'
                   /\ UNCHANGED <<ePc, eAccepted>>
              ELSE IF letterReceived /\ Len(eName) < MAX_NAME_LENGTH /\ CharIsAllowed(e.text)
              THEN /\ eName' = Append(eName, e.text)
                   /\ eShown' = eName'
                   /\ UNCHANGED <<ePc, eAccepted>>
              ELSE UNCHANGED <<ePc, eName, eShown, eAccepted>>
    /\ UNCHANGED <<firstVars, otherVars, maskVars, panelVars>>

\* Every part of the third part of the module is idle.
ThirdIdle == MasksIdle /\ PanelsIdle /\ EntryIdle

\* Every part of the second half of the module is idle.
OtherIdle == ClassIdle /\ SpellsIdle /\ GameIdle /\ MakerIdle

---------------------------------------------------------------------------
(* Specifications *)

TemplateNext == TemplateLine \/ TemplateEnd
InitTemplate == TemplateStart /\ QuizIdle /\ NameIdle /\ ChunkIdle /\ TerrainIdle /\ OtherIdle /\ ThirdIdle
SpecTemplate == InitTemplate /\ [][TemplateNext]_vars

QuizNext == QuizLine \/ QuizEnd
InitQuiz == QuizStart /\ TemplateIdle /\ NameIdle /\ ChunkIdle /\ TerrainIdle /\ OtherIdle /\ ThirdIdle
SpecQuiz == InitQuiz /\ [][QuizNext]_vars
InitQuizLines == QuizLinesStart /\ TemplateIdle /\ NameIdle /\ ChunkIdle /\ TerrainIdle /\ OtherIdle /\ ThirdIdle
SpecQuizLines == InitQuizLines /\ [][QuizNext]_vars

NameNext == NameCall \/ NameRuleStep \/ NameReturn \/ NameCallAgain
InitName == NameStart /\ TemplateIdle /\ QuizIdle /\ ChunkIdle /\ TerrainIdle /\ OtherIdle /\ ThirdIdle
SpecName == InitName /\ [][NameNext]_vars

ChunkNext == ChunkRecord \/ ChunkEnd
InitChunk == ChunkStart /\ TemplateIdle /\ QuizIdle /\ NameLocalsIdle /\ TerrainIdle /\ OtherIdle /\ ThirdIdle
SpecChunk == InitChunk /\ [][ChunkNext]_vars

\* The parsers of fixed-size records: parseClasses and parseStandardSpells.
FirstIdle == TemplateIdle /\ QuizIdle /\ NameIdle /\ ChunkIdle /\ TerrainIdle
RecordsNext == ClassIdStep \/ ChoiceStep \/ ClassDefStep \/ SpellStep
InitRecords ==
    /\ ThirdIdle /\ FirstIdle
    /\ GameIdle /\ MakerIdle
    /\ (ClassesStart /\ SpellsIdle) \/ (SpellsStart /\ ClassIdle)
SpecRecords == InitRecords /\ [][RecordsNext]_vars

\* The program from the construction of Game on.
GameNext ==
    \/ GameStep \/ InitStep \/ InitAgain \/ Accessor \/ GetTemplateDatText
    \/ GameGenerateNpcName \/ NameCall \/ NameRuleStep \/ NameReturn \/ NameCallAgain
InitGame ==
    /\ GameStart
    /\ ThirdIdle /\ FirstIdle /\ ClassIdle /\ SpellsIdle /\ MakerIdle
SpecGame == InitGame /\ [][GameNext]_vars

MakerNext == MakerLine \/ MakerEnd
InitMaker ==
    /\ MakerStart
    /\ ThirdIdle /\ FirstIdle /\ ClassIdle /\ SpellsIdle /\ GameIdle
SpecMaker == InitMaker /\ [][MakerNext]_vars

MasksNext == MaskStep
InitMasks == MasksStart /\ PanelsIdle /\ EntryIdle /\ FirstIdle /\ OtherIdle
SpecMasks == InitMasks /\ [][MasksNext]_vars

PanelsNext == PanelDispatch \/ SetPanel \/ PushSubPanel \/ PopSubPanel \/ HandlePanelChanges
InitPanels == PanelsStart /\ MasksIdle /\ EntryIdle /\ FirstIdle /\ OtherIdle
SpecPanels == InitPanels /\ [][PanelsNext]_vars

EntryNext == EntryHandleEvent
InitEntry == EntryStart /\ MasksIdle /\ PanelsIdle /\ FirstIdle /\ OtherIdle
SpecEntry == InitEntry /\ [][EntryNext]_vars

TerrainNext == TerrainFirst \/ TerrainRing \/ TerrainGiveUp
InitTerrain == TerrainStart /\ TemplateIdle /\ QuizIdle /\ NameIdle /\ ChunkIdle /\ OtherIdle /\ ThirdIdle
SpecTerrain == InitTerrain /\ [][TerrainNext]_vars

---------------------------------------------------------------------------
(* C1 *)

\* The body with every '\r' turned into '\n'.
Normalized(body) == [i \in 1..Len(body) |-> IF body[i] = "\r" THEN "\n" ELSE body[i]]
Newlines(n) == [i \in 1..n |-> "\n"]

\* C1 as stated: every stored value ends neither with '\n' nor with '&'.
C1_Original ==
    tPc = "done" =>
        \A k \in DOMAIN templateDat :
            ~EndsWith(templateDat[k], "\n") /\ ~EndsWith(templateDat[k], "&")

\* C1 (amended): every stored value is its body with '\r' replaced by '\n',
\* all trailing '\n' removed and then at most one trailing '&' removed; a value
\* from which no '&' was removed ends neither with '\n' nor with '&'.
C1_TemplateValueStripped ==
    \A k \in DOMAIN templateDat :
        LET v == templateDat[k]
            b == Normalized(tBody[k])
        IN \E n \in 0..Len(b) :
             \/ /\ b = v \o Newlines(n)
                /\ ~EndsWith(v, "\n") /\ ~EndsWith(v, "&")
             \/ b = v \o <<"&">> \o Newlines(n)

\* A key is stored whose body had trailing newlines and an ampersand to strip.
C1_Witness ==
    /\ tPc = "done"
    /\ \E k \in DOMAIN templateDat :
         /\ k # <<>>
         /\ Len(templateDat[k]) > 0
         /\ Len(tBody[k]) >= Len(templateDat[k]) + 2
         /\ EndsWith(Normalized(tBody[k]), "\n")

---------------------------------------------------------------------------
(* C2 *)

\* The category a tag character stands for; "none" for any other character.
TagCategory(x) ==
    CASE x = "l" -> "Mage" [] x = "c" -> "Thief" [] x = "v" -> "Warrior"
      [] OTHER -> "none"
GoodTags(t) == \A i \in 1..3 : TagCategory(t[i]) # "none"
\* The first input question with a bad tag, or one past the last question.
FirstBad(ts) ==
    IF \E i \in 1..Len(ts) : ~GoodTags(ts[i])
    THEN CHOOSE i \in 1..Len(ts) : ~GoodTags(ts[i]) /\ \A j \in 1..(i - 1) : GoodTags(ts[j])
    ELSE Len(ts) + 1

\* C2: on a text of questions with three tagged choices each, question i is
\* pushed with the categories of its tags (l -> Mage, c -> Thief, v -> Warrior);
\* the first question with any other tag ends the parse with the format error
\* and nothing is pushed for it.
C2_QuizCategories ==
    Len(qInput) >= 1 =>
        /\ Len(questionTxt) < FirstBad(qInput)
        /\ \A i \in 1..Len(questionTxt) :
             /\ questionTxt[i].catA = TagCategory(qInput[i][1])
             /\ questionTxt[i].catB = TagCategory(qInput[i][2])
             /\ questionTxt[i].catC = TagCategory(qInput[i][3])
        /\ qPc = "done" => Len(questionTxt) = Len(qInput)
        /\ qPc = "error" => /\ qErr = "runtime_error"
                            /\ Len(questionTxt) = FirstBad(qInput) - 1
                            /\ qFlushes = FirstBad(qInput)

\* Two questions parsed, all three categories recovered.
C2_Witness ==
    /\ qPc = "done" /\ Len(questionTxt) = 2
    /\ questionTxt[1].catA = "Mage" /\ questionTxt[1].catB = "Thief"
    /\ questionTxt[2].catC = "Warrior"

---------------------------------------------------------------------------
(* C3 - C7 *)

RECURSIVE Flatten(_)
Flatten(ss) == IF ss = <<>> THEN <<>> ELSE Head(ss) \o Flatten(Tail(ss))

NameStarted == nPc \in {"rules", "done", "error"}
RulesInUse == NameRules[nSlot + 1]
IsGated(rule) == rule.type \in {"IndexChance", "IndexStringChance"}
\* The entry of the log for rule i, with the rule it belongs to.
Outs == [i \in 1..Len(nLog) |-> nLog[i].out]
DrawsLogged == Flatten([i \in 1..Len(nLog) |-> nLog[i].draws])

RECURSIVE NameFromRules(_, _, _, _)
\* What generateNpcName yields as a function of its inputs alone: the rules
\* i.. of `rules` applied to the name built so far, the chunk table and the
\* values the generator yields from number used + 1 on.
NameFromRules(rules, i, name, used) ==
    IF i > Len(rules) THEN [pc |-> "done", name |-> name, draws |-> used]
    ELSE LET rule == rules[i] IN
         IF rule.type = "String" THEN NameFromRules(rules, i + 1, name \o rule.str, used)
         ELSE IF rule.index < 0 \/ rule.index >= Len(nameChunks)
         THEN [pc |-> "error", name |-> name, draws |-> used]
         ELSE LET group == nameChunks[rule.index + 1]
                  gated == rule.type # "Index"
                  pick == used + (IF gated THEN 2 ELSE 1)
                  tail == IF rule.type = "IndexStringChance" THEN rule.str ELSE <<>>
              IN IF pick > Len(rngTape) /\ (~gated \/ used + 1 > Len(rngTape))
                 \* the generator was not asked for that many values
                 THEN [pc |-> "undrawn", name |-> name, draws |-> used]
                 ELSE IF gated /\ (rngTape[used + 1] % 100) > rule.chance
                 THEN NameFromRules(rules, i + 1, name, used + 1)
                 ELSE IF pick > Len(rngTape)
                 THEN [pc |-> "undrawn", name |-> name, draws |-> used + 1]
                 ELSE IF group = <<>>
                 THEN [pc |-> "error", name |-> name, draws |-> pick]
                 ELSE NameFromRules(rules, i + 1,
                                    name \o group[(rngTape[pick] % Len(group)) + 1] \o tail, pick)

\* The outcome for the arguments, the table and the generator sequence of
\* this behaviour, on this build.
NameExpected ==
    LET slot == DoubleWrapped(nRace) + (IF nMale THEN 0 ELSE 1) IN
    IF (DoublingOverflows(nRace) /\ nTraps) \/ slot < 0 \/ slot >= 48
    THEN [pc |-> "error", name |-> <<>>, draws |-> 0]
    ELSE NameFromRules(NameRules[slot + 1], 1, <<>>, 0)

\* C3: a call that has ended yields what the arguments, the chunk table and
\* the generator's sequence determine, the string returned (or a failure) and
\* the number of draws consumed; so the repeated call, with the same raceID,
\* isMale, chunk table and generator sequence, ends like the first one.
C3_Deterministic ==
    /\ nPc \in {"done", "error"} =>
        /\ nPc = NameExpected.pc
        /\ nDraws = NameExpected.draws
        /\ nPc = "done" => nName = NameExpected.name
    /\ (nCall = 2 /\ nPc \in {"done", "error"}) =>
        /\ nFirst[1].pc = nPc
        /\ nFirst[1].draws = nDraws
        /\ nPc = "done" => nFirst[1].name = nName

\* Both calls returned a name built from four or more draws.
C3_Witness ==
    /\ nCall = 2 /\ nPc = "done" /\ nDraws >= 4 /\ Len(nName) >= 8
    /\ \E g \in DOMAIN nameChunks : Len(nameChunks[g]) = 2

\* C4: the name is the concatenation, in rule order, of what each rule
\* contributed; a plain reference to group g contributes
\* nameChunks[g][draw % size(g)] for its one draw, a literal contributes its
\* string and draws nothing.
C4_NameIsConcatenation ==
    (NameStarted /\ nSlot \in 0..47) =>
        /\ Len(nLog) <= Len(RulesInUse)
        /\ nPc = "done" => Len(nLog) = Len(RulesInUse)
        /\ nName = Flatten(Outs)
        /\ \A i \in 1..Len(nLog) :
             LET rule == RulesInUse[i] IN
             /\ rule.type = "Index" =>
                  /\ Len(nLog[i].draws) = 1
                  /\ LET group == nameChunks[rule.index + 1] IN
                     nLog[i].out = group[(nLog[i].draws[1] % Len(group)) + 1]
             /\ rule.type = "String" =>
                  /\ nLog[i].draws = <<>>
                  /\ nLog[i].out = rule.str
                  /\ rule.str \in {Space, Sen}

\* A returned name with a literal in it and a plain reference that picked the
\* second string of its group.
C4_Witness ==
    /\ nPc = "done"
    /\ \E i, j \in 1..Len(nLog) :
         /\ RulesInUse[i].type = "Index"
         /\ Len(nameChunks[RulesInUse[i].index + 1]) = 2
         /\ nLog[i].out = nameChunks[RulesInUse[i].index + 1][2]
         /\ RulesInUse[j].type = "String" /\ j < Len(nLog)

\* C5: a chance-gated rule with chance c draws t = next() % 100 first and
\* appends iff t <= c: the sampled chunk string (followed by the literal for a
\* reference-plus-literal rule); when t > c it appends nothing and draws no
\* chunk index.
C5_ChanceGate ==
    (NameStarted /\ nSlot \in 0..47) =>
        \A i \in 1..Len(nLog) :
            LET rule == RulesInUse[i]
                ds == nLog[i].draws
            IN IsGated(rule) =>
                 /\ Len(ds) >= 1
                 /\ IF (ds[1] % 100) <= rule.chance
                    THEN /\ Len(ds) = 2
                         /\ LET group == nameChunks[rule.index + 1]
                                chunk == group[(ds[2] % Len(group)) + 1]
                            IN nLog[i].out =
                                 IF rule.type = "IndexChance" THEN chunk ELSE chunk \o Space
                    ELSE /\ Len(ds) = 1
                         /\ nLog[i].out = <<>>

\* A reference-plus-literal rule of chance 25 passed with t = 25 exactly.
C5_Witness ==
    /\ nPc = "done" /\ Len(nLog) >= 1
    /\ RulesInUse[1].type = "IndexStringChance"
    /\ nLog[1].draws[1] % 100 = RulesInUse[1].chance
    /\ Len(nLog[1].out) = 3

PlainCount == Cardinality({i \in 1..Len(RulesInUse) : RulesInUse[i].type = "Index"})
GatedCount == Cardinality({i \in 1..Len(RulesInUse) : IsGated(RulesInUse[i])})
GatedPassedCount ==
    Cardinality({i \in 1..Len(nLog) :
                    /\ IsGated(RulesInUse[i])
                    /\ (nLog[i].draws[1] % 100) <= RulesInUse[i].chance})

\* C6 as stated: every chance-gated rule costs two draws.
C6_Original ==
    nPc = "done" => nDraws = PlainCount + 2 * GatedCount

\* C6 (amended): a call draws once per plain reference, once per chance-gated
\* rule for the threshold test and once more, after the threshold draw, for
\* each chance-gated rule whose test passed; literal rules draw nothing.
C6_DrawCount ==
    (NameStarted /\ nSlot \in 0..47) =>
        /\ nPc = "done" => nDraws = PlainCount + GatedCount + GatedPassedCount
        /\ nPc # "error" => DrawsLogged = SubSeq(rngTape, 1, nDraws)
        /\ \A i \in 1..Len(nLog) :
             LET rule == RulesInUse[i] IN
             Len(nLog[i].draws) =
                 IF rule.type = "String" THEN 0
                 ELSE IF rule.type = "Index" THEN 1
                 ELSE IF (nLog[i].draws[1] % 100) <= rule.chance THEN 2 ELSE 1

\* A name was returned although the threshold test of a gated rule failed.
C6_Witness ==
    /\ nPc = "done" /\ GatedCount = 1 /\ GatedPassedCount = 0 /\ nDraws = PlainCount + 1

\* C7 as stated: the rules of slot raceID*2 + (isMale ? 0 : 1) are used; a
\* raceID whose slot is outside 0..47 makes the call fail without a draw, and
\* no name is returned when a referenced group is missing.
C7_Original ==
    NameStarted =>
        /\ nRace \in 0..23 =>
             (nPc \in {"rules", "done"} => nSlot = nRace * 2 + (IF nMale THEN 0 ELSE 1))
        /\ nRace \notin 0..23 => (nPc = "error" /\ nDraws = 0)
        /\ nPc = "done" =>
             \A i \in 1..Len(RulesInUse) :
                RulesInUse[i].type # "String" =>
                    InRange(RulesInUse[i].index, Len(nameChunks))

---------------------------------------------------------------------------
(* C8, C9 *)

RECURSIVE SumLengths(_, _)
\* The declared lengths of records 1..n of the input added up.
SumLengths(recs, n) == IF n = 0 THEN 0 ELSE SumLengths(recs, n - 1) + recs[n].length

\* The offset after the k-th record read.
OffsetAfter(k) == IF k < Len(cTrace) THEN cTrace[k + 1] ELSE cOffset

\* C8: the cursor after a record is the cursor before it plus the 16-bit
\* length its header declares, whatever the strings took (the low byte of
\* that length always lies in the buffer; the high byte is the buffer's, or
\* the memory's when the header is cut off by the end); so record k is read
\* at the sum of the declared lengths of the records before it.
C8_CursorAdvance ==
    /\ cTrace # <<>> => cTrace[1] = 0
    /\ \A k \in 1..Len(cTrace) :
         /\ OffsetAfter(k) = cTrace[k] + cLens[k]
         /\ cLens[k] \in 0..65535 /\ cLens[k] % 256 = cData[cTrace[k] + 1]
         /\ cTrace[k] + 1 < Len(cData) =>
               cLens[k] = cData[cTrace[k] + 1] + (256 * cData[cTrace[k] + 2])
         /\ (k <= Len(cRecs) /\ \A j \in 1..(k - 1) : WellFormed(cRecs[j])) =>
              /\ cTrace[k] = SumLengths(cRecs, k - 1)
              /\ OffsetAfter(k) = SumLengths(cRecs, k)

\* A record of declared length 10 with two strings and two bytes of padding
\* was read at 0 and the next one at 10.
C8_Witness ==
    /\ cPc = "done" /\ Len(cTrace) = 2 /\ cTrace[2] = 10
    /\ cRecs[1] = [strings |-> <<<<65>>, <<66, 67>>>>, pad |-> <<7, 7>>, length |-> 10]

\* C9: on a file of n well-formed records the table ends with n groups, group k
\* holding the strings of record k in their order, groups in file order; no
\* read leaves the buffer.
C9_GroupsMatchRecords ==
    (cPc # "idle" /\ \A k \in 1..Len(cRecs) : WellFormed(cRecs[k])) =>
        /\ cPc \in {"loop", "done"}
        /\ cBeyond = 0
        /\ Len(nameChunks) <= Len(cRecs)
        /\ \A k \in 1..Len(nameChunks) : nameChunks[k] = cRecs[k].strings
        /\ cPc = "done" => Len(nameChunks) = Len(cRecs)

\* Two well-formed records decoded, the first padded, the second with two strings.
C9_Witness ==
    /\ cPc = "done" /\ Len(cRecs) = 2 /\ Len(nameChunks) = 2
    /\ \A k \in 1..2 : WellFormed(cRecs[k])
    /\ cRecs[1].pad # <<>> /\ Len(cRecs[1].strings) = 1
    /\ Len(nameChunks[2]) = 2

---------------------------------------------------------------------------
(* C10 *)

\* The pixel k places after the pixel 12 to the left of (x, y) in the image,
\* the image taken as one row-major sequence that wraps around.
Shifted(k) == IndicesAt(((((gX + (gY * WIDTH)) - TerrainShift) + k) + PixelCount) % PixelCount)
Below(r) == Shifted(r * WIDTH)
Above(r) == Shifted(0 - (r * WIDTH))
Right(r) == Shifted(r)
Left(r) == Shifted(0 - r)
RingIsSea(r) == Below(r) = SEA /\ Above(r) = SEA /\ Right(r) = SEA /\ Left(r) = SEA
\* What the scan in the order below, above, right, left finds at radius r.
FoundAt(r) ==
    IF Below(r) # SEA THEN Below(r)
    ELSE IF Above(r) # SEA THEN Above(r)
    ELSE IF Right(r) # SEA THEN Right(r)
    ELSE Left(r)
InImage == gX \in 0..(WIDTH - 1) /\ gY \in 0..(HEIGHT - 1)

\* The first part of C10: the requested pixel when it is not sea, else the
\* first pixel that is not sea by increasing radius 1..199 and, within a
\* radius, in the order below, above, right, left.
ScanResult ==
    /\ Shifted(0) # SEA => gResult = Shifted(0)
    /\ Shifted(0) = SEA =>
         \A r \in 1..199 :
            (~RingIsSea(r) /\ \A q \in 1..(r - 1) : RingIsSea(q)) => gResult = FoundAt(r)

\* C10 as stated: with the scan order, and a mountain directly above at radius
\* 2 returned whenever the pixel and its four neighbours at radius 1 are sea.
C10_Original ==
    (gPc = "done" /\ InImage) =>
        /\ ScanResult
        /\ (Shifted(0) = SEA /\ RingIsSea(1) /\ Above(2) = MOUNTAIN1) => gResult = MOUNTAIN1

\* C10 (amended): with the scan order; a mountain directly above at radius 2
\* is returned when the pixel, its four neighbours at radius 1 and the pixel
\* directly below at radius 2 are sea.
C10_FailSafeScan ==
    (gPc = "done" /\ InImage) =>
        /\ ScanResult
        /\ (Shifted(0) = SEA /\ RingIsSea(1) /\ Below(2) = SEA /\ Above(2) = MOUNTAIN1)
               => gResult = MOUNTAIN1

\* The mountain above at radius 2 was returned, past a sea pixel and a sea ring.
C10_Witness ==
    /\ gPc = "done" /\ InImage /\ gDist = 2
    /\ Shifted(0) = SEA /\ RingIsSea(1) /\ Below(2) = SEA /\ Above(2) = MOUNTAIN1
    /\ Right(2) = DESERT1
    /\ gResult = MOUNTAIN1

---------------------------------------------------------------------------
(* C11 *)

\* Every ring of radius 1..199 around the requested pixel is sea.
AllRingsSea == \A r \in 1..(FailSafeLimit - 1) : RingIsSea(r)

\* C11: for a coordinate inside the image getFailSafeAt never fails: every
\* index it probes lies in 0..(WIDTH * HEIGHT - 1), and when the requested
\* pixel and every neighbour at radius 1..199 are sea it returns TEMPERATE1.
C11_FailSafeNeverFails ==
    InImage =>
        /\ gPc # "error"
        /\ \A index \in gProbed : 0 <= index /\ index < WIDTH * HEIGHT
        /\ (gPc = "done" /\ Shifted(0) = SEA /\ AllRingsSea) => gResult = TEMPERATE1

\* The last pixel of an all-sea image was asked for: the scan ran through
\* radius 199, probing the largest index (below) and wrapped ones, and gave up.
C11_Witness ==
    /\ gPc = "done" /\ gX = WIDTH - 1 /\ gY = HEIGHT - 1
    /\ Shifted(0) = SEA /\ AllRingsSea
    /\ ((gX + ((gY + 199) * WIDTH)) - TerrainShift) - (WIDTH * HEIGHT) \in gProbed
    /\ gResult = TEMPERATE1

---------------------------------------------------------------------------
(* C12, C13, C14 *)

Range(s) == { s[k] : k \in 1..Len(s) }
\* parseClasses has ended, one way or another.
ClassesEnded == kPc \in {"done", "error", "crash"}
\* The class numbers of the definitions in the table.
DefinedClasses == { classDefinitions[k].number : k \in 1..Len(classDefinitions) }
\* The loop stopped at class i with the exception `what`.
FailedAt(i, what) == kPc = "error" /\ kI = i /\ kErr = what

ArmorSet(code) ==
    CASE code = 0 -> {"Leather", "Chain", "Plate"}
      [] code = 1 -> {"Leather", "Chain"}
      [] code = 2 -> {"Leather"}
      [] code = 3 -> {}

\* C12: every class definition has the armor set of its class's armor code:
\* {Leather, Chain, Plate} for 0, {Leather, Chain} for 1, {Leather} for 2, {}
\* for 3; a class with any other code gets no definition: parseClasses does
\* not complete, and it fails with the format error when it reaches the class.
C12_AllowedArmors ==
    /\ \A k \in 1..Len(classDefinitions) :
          LET code == kExe[classDefinitions[k].number].armor IN
          /\ code \in 0..3
          /\ Range(classDefinitions[k].allowedArmors) = ArmorSet(code)
    /\ \A i \in 0..(ClassCount - 1) :
          (kPc = "defs" /\ kExe[i].armor \notin 0..3) =>
              /\ i \notin DefinedClasses
              /\ kI <= i
    /\ \A i \in 0..(ClassCount - 1) :
          (ClassesEnded /\ kExe # EmptyMap /\ kExe[i].armor \notin 0..3) =>
              /\ kPc # "done"
              /\ i \notin DefinedClasses
              /\ (kPc = "error" /\ kI = i) => kErr = "runtime_error"

\* Class 6 has code 255: the six classes before it are defined with all three
\* armors, and the parse stopped there with the format error.
C12_Witness ==
    /\ FailedAt(6, "runtime_error") /\ kExe[6].armor = 255
    /\ DefinedClasses = 0..5
    /\ \A k \in 1..6 : Range(classDefinitions[k].allowedArmors) = {"Leather", "Chain", "Plate"}

\* floor(200 / d) for d >= 1.
FloorOf200(d) == CHOOSE q \in 0..200 : q * d <= 200 /\ 200 < (q + 1) * d

\* C13: for a divisor d in 1..255 the lockpicking multiplier of the class
\* definition is floor(200 / d) hundredths exactly: 0.50 for d = 4 and 0.66,
\* not 0.6667, for d = 3.
C13_Lockpicking ==
    \A k \in 1..Len(classDefinitions) :
        LET d == kExe[classDefinitions[k].number].divisor IN
        d \in 1..255 =>
            /\ classDefinitions[k].lockpicking = FloorOf200(d) * 100
            /\ d = 4 => classDefinitions[k].lockpicking = 5000
            /\ d = 3 => classDefinitions[k].lockpicking = 6600

\* All 18 classes are defined; the first has divisor 3 and multiplier 0.66,
\* the second divisor 4 and multiplier 0.50.
C13_Witness ==
    /\ kPc = "done" /\ Len(classDefinitions) = 18
    /\ kExe[0].divisor = 3 /\ classDefinitions[1].lockpicking = 6600
    /\ kExe[1].divisor = 4 /\ classDefinitions[2].lockpicking = 5000

ShieldOfId(id) ==
    CASE id = 7 -> "Buckler" [] id = 8 -> "Round" [] id = 9 -> "Kite" [] id = 10 -> "Tower"
\* The shield (weapon) index of a class refers to no list, or to a list with
\* an id outside 7..10 (0..17).
BadShields(s) ==
    /\ s # 0 - 1
    /\ \/ s \notin 0..(Len(AllowedShieldsLists) - 1)
       \/ \E id \in Range(AllowedShieldsLists[s + 1]) : id \notin 7..10
BadWeapons(w) ==
    /\ w # 0 - 1
    /\ \/ w \notin 0..(Len(AllowedWeaponsLists) - 1)
       \/ \E id \in Range(AllowedWeaponsLists[w + 1]) : id \notin 0..17

\* C14: with index -1 a class is allowed all four shields (all weapons
\* 0..17); otherwise its allowed set is the image of the list the index
\* refers to, shield id s giving the type at position s - 7 and weapon ids
\* kept; a class whose index or ids are out of range gets no definition and
\* parseClasses does not complete.
C14_ShieldsAndWeapons ==
    /\ \A k \in 1..Len(classDefinitions) :
          LET s == kExe[classDefinitions[k].number].shield
              w == kExe[classDefinitions[k].number].weapon
          IN
          /\ ~BadShields(s) /\ ~BadWeapons(w)
          /\ Range(classDefinitions[k].allowedShields) =
                (IF s = 0 - 1 THEN {"Buckler", "Round", "Kite", "Tower"}
                 ELSE { ShieldOfId(id) : id \in Range(AllowedShieldsLists[s + 1]) })
          /\ Range(classDefinitions[k].allowedWeapons) =
                (IF w = 0 - 1 THEN 0..17 ELSE Range(AllowedWeaponsLists[w + 1]))
    /\ \A i \in 0..(ClassCount - 1) :
          (ClassesEnded /\ kExe # EmptyMap /\ (BadShields(kExe[i].shield) \/ BadWeapons(kExe[i].weapon))) =>
              /\ kPc # "done"
              /\ i \notin DefinedClasses
              /\ (kPc = "error" /\ kI = i /\ kExe[i].armor \in 0..3) => kErr = "out_of_range"

\* The last class refers to the shield list 10, 8, 8 and is allowed Tower and
\* Round; the classes before it are allowed everything.
C14_Witness ==
    /\ kPc = "done" /\ Len(classDefinitions) = 18
    /\ kExe[17].shield = 2
    /\ classDefinitions[18].allowedShields = <<"Tower", "Round", "Round">>
    /\ Range(classDefinitions[18].allowedWeapons) = 0..17
    /\ Range(classDefinitions[1].allowedShields) = {"Buckler", "Round", "Kite", "Tower"}

---------------------------------------------------------------------------
(* C15 *)

\* The bytes the fixed-record parses need: 18 one-byte records and 66
\* three-byte records; 128 records of 85 bytes.
ClassTableBytes == (18 * 1) + (66 * 3)
SpellTableBytes == 128 * 85

\* C15 as stated: a fixed-record parse never reads a byte at or after the end
\* of its buffer, and on a buffer shorter than count * stride bytes it ends
\* with a corrupt-asset error.
C15_Original ==
    /\ kBeyond = {} /\ sBeyond = {}
    /\ (ClassesEnded /\ kSize < ClassTableBytes) => kPc = "error"
    /\ (sPc \in {"done", "crash"} /\ sSize < SpellTableBytes) => sPc = "error"

\* With a buffer of the full length or more, neither parse reads past it and
\* the tables are filled from the offsets i, 18 + 3 * i and 85 * i.
C15_FullBuffer ==
    /\ kSize >= ClassTableBytes => (kBeyond = {} /\ kErr # "SIGSEGV")
    /\ sSize >= SpellTableBytes => (sBeyond = {} /\ sPc # "crash")
    /\ \A i \in 1..Len(kClasses) : kSize >= i => kClasses[i] = ClassesByte(i - 1)
    /\ \A i \in 1..Len(kChoices) :
          kSize >= 18 + (3 * i) =>
              kChoices[i] = [a |-> ClassesByte(18 + (3 * (i - 1))),
                             b |-> ClassesByte(19 + (3 * (i - 1))),
                             c |-> ClassesByte(20 + (3 * (i - 1)))]
    /\ \A i \in 1..Len(standardSpells) :
          sSize >= 85 * i =>
              /\ standardSpells[i].targetType = SpellsByte((85 * (i - 1)) + 36)
              /\ standardSpells[i].cost =
                    SpellsByte((85 * (i - 1)) + 50) + (256 * SpellsByte((85 * (i - 1)) + 51))
              /\ standardSpells[i].name[33] = SpellsByte((85 * i) - 1)

---------------------------------------------------------------------------
(* C16, C17 *)

\* The parse steps in the order the registry is to be populated in.
PopulationOrder ==
    <<"parseExecutableData", "parseTemplateDat", "parseQuestionTxt", "parseClasses",
      "parseDungeonTxt", "parseArtifactText", "parseTradeText", "parseNameChunks",
      "parseStandardSpells", "parseSpellMakerDescriptions", "cityDataFile",
      "parseWorldMapMasks", "worldMapTerrain">>
IsParseStep(s) == \E k \in 1..13 : PopulationOrder[k] = s
\* The parse steps run so far, in the order they were run.
ParseLog == SelectSeq(aLog, IsParseStep)
\* Entry k of the log has an earlier entry s.
Preceded(k, s) == \E j \in 1..(k - 1) : aLog[j] = s

\* C16: the parse steps run in the one fixed order exe data, template,
\* questions, classes, dungeons, artifact text, trade text, name chunks,
\* spells, spell-maker text, city data, masks, terrain; the virtual file
\* system is initialized before the first of them, the executable data is
\* loaded before the class definitions, and the first panel is created, and
\* any accessor called, only after init has returned.
C16_InitOrder ==
    /\ \A k \in 1..Len(ParseLog) : ParseLog[k] = PopulationOrder[((k - 1) % 13) + 1]
    /\ \A k \in 1..Len(aLog) :
          /\ IsParseStep(aLog[k]) => Preceded(k, "vfs")
          /\ aLog[k] = "parseClasses" => Preceded(k, "parseExecutableData")
          /\ aLog[k] = "panel" =>
                /\ \A j \in 1..13 : Preceded(k, PopulationOrder[j])
                /\ aInits >= 1
    /\ aPanel => aInits >= 1
    /\ aReturned # <<>> => (aInits >= 1 /\ aPanel)

\* The game is constructed: the thirteen steps have run once, the panel is
\* set and an accessor has returned the class definitions.
C16_Witness ==
    /\ aPc = "running" /\ aPanel /\ aInits = 1
    /\ ParseLog = PopulationOrder
    /\ aReturned = <<"classDefinitions", Records("CLASSES.DAT", 18)>>

\* The number of the first step that opens the file, 0 for a file that no
\* parse step opens.
StepOfFile(f) ==
    IF \E j \in 1..13 : \E l \in Range(StepLoads(PopulationOrder[j])) : l.file = f
    THEN CHOOSE j \in 1..13 :
            /\ \E l \in Range(StepLoads(PopulationOrder[j])) : l.file = f
            /\ \A i \in 1..(j - 1) : \A l \in Range(StepLoads(PopulationOrder[i])) : l.file # f
    ELSE 0
\* The member of that name holds nothing.
TableEmpty(name) == IF name = "nameChunks" THEN nameChunks = <<>> ELSE aTables[name] = <<>>

\* C17: when a file that a parse step needs cannot be opened, init aborts at
\* that step: no later step runs, no member of a later step is filled, init
\* never counts as completed and the program never gets to the panel.
C17_MissingFileAborts ==
    \A f \in aMissing :
        StepOfFile(f) # 0 =>
            /\ Len(ParseLog) <= StepOfFile(f)
            /\ Len(ParseLog) = StepOfFile(f) => aPc = "aborted"
            /\ aInits = 0 /\ aPc # "running" /\ ~aPanel
            /\ \A i \in (StepOfFile(f) + 1)..13 :
                  \A l \in Range(StepLoads(PopulationOrder[i])) : TableEmpty(l.table)

\* ARTFACT2.DAT is missing: init stopped in the sixth step, after five
\* steps and the first artifact file, with the trade text never loaded.
C17_Witness ==
    /\ aPc = "aborted" /\ aMissing = {"ARTFACT2.DAT"}
    /\ Len(ParseLog) = 6 /\ ParseLog[6] = "parseArtifactText"
    /\ aTables["dungeonTxt"] # <<>> /\ aTables["artifactTavernText1"] # <<>>
    /\ aTables["artifactTavernText2"] = <<>> /\ aTables["tradeText.equipment"] = <<>>

---------------------------------------------------------------------------
(* C18, C19 *)

\* C18: once init has completed and until it is called again, no accessor
\* call and no step of generateNpcName changes a table: the members and the
\* name chunks stay as loaded.
C18_TablesFrame ==
    [][aPc = "running" => (aTables' = aTables /\ nameChunks' = nameChunks)]_vars

\* generateNpcName has returned a name made of drawn chunks and an accessor
\* has returned the questions, with the tables as loaded.
C18_Witness ==
    /\ aPc = "running" /\ aInits = 1
    /\ nPc = "done" /\ nDraws > 0 /\ nName # <<>> /\ nCall = 2
    /\ aReturned = <<"questionTxt", Records("QUESTION.TXT", 2)>>
    /\ nameChunks = NameChunkFile

\* C19 as stated: after any number of completed init calls there are 18 class
\* definitions, and the question, dungeon and name-chunk tables hold the
\* records of their files.
C19_Original ==
    (aPc = "running" /\ aInits >= 1) =>
        /\ Len(aTables["classDefinitions"]) = 18
        /\ aTables["questionTxt"] = Records("QUESTION.TXT", 2)
        /\ aTables["dungeonTxt"] = Records("DUNGEON.TXT", 2)
        /\ nameChunks = NameChunkFile

\* After the first init call the tables hold the records of the files once.
C19_FirstInit ==
    (aPc = "running" /\ aInits = 1) =>
        /\ Len(aTables["classDefinitions"]) = 18
        /\ aTables["questionTxt"] = Records("QUESTION.TXT", 2)
        /\ aTables["dungeonTxt"] = Records("DUNGEON.TXT", 2)
        /\ nameChunks = NameChunkFile

---------------------------------------------------------------------------
(* C20 *)

IsIndexLine(l) == l # <<>> /\ l[1] = "#"
IsTextLine(l) == l # <<>> /\ l[1] # "#"
\* The line is '#' followed by two digits; the number they spell.
HasNumber(l) == IsIndexLine(l) /\ Len(l) >= 3 /\ l[2] \in Digits /\ l[3] \in Digits
NumberOf(l) == (10 * DigitValue(l[2])) + DigitValue(l[3])
\* Line i opens a block: the text lines after it up to the next index line
\* are its body.
BlockEnd(i) ==
    IF \E j \in (i + 1)..Len(mInput) : IsIndexLine(mInput[j])
    THEN (CHOOSE j \in (i + 1)..Len(mInput) :
            IsIndexLine(mInput[j]) /\ \A h \in (i + 1)..(j - 1) : ~IsIndexLine(mInput[h])) - 1
    ELSE Len(mInput)
RECURSIVE Concat(_)
Concat(ls) == IF ls = <<>> THEN <<>> ELSE Head(ls) \o Concat(Tail(ls))
BodyOf(i) == Concat(SubSeq(mInput, i + 1, BlockEnd(i)))
\* The text has an index line without a two-digit number, an index of 43 or
\* more, or body text before the first index line.
MakerFormatError ==
    \/ \E i \in 1..Len(mInput) : IsIndexLine(mInput[i]) /\ ~HasNumber(mInput[i])
    \/ \E i \in 1..Len(mInput) : HasNumber(mInput[i]) /\ NumberOf(mInput[i]) >= 43
    \/ \E i \in 1..Len(mInput) :
          IsTextLine(mInput[i]) /\ \A h \in 1..(i - 1) : ~IsIndexLine(mInput[h])
MakerEnded == mPc \in {"done", "error", "crash"}

\* C20 as stated: the body of each '#NN' block with NN in 0..42 is stored at
\* index NN (the last block of a number counts), and a text with an index
\* out of range, an index line without a number or body text before the first
\* index line ends the parse with a format error.
C20_Original ==
    /\ (MakerEnded /\ MakerFormatError) => mPc = "error"
    /\ (mPc = "done" /\ ~MakerFormatError) =>
          \A i \in 1..Len(mInput) :
             (/\ HasNumber(mInput[i])
              /\ \A j \in (i + 1)..Len(mInput) :
                    HasNumber(mInput[j]) => NumberOf(mInput[j]) # NumberOf(mInput[i]))
             => /\ NumberOf(mInput[i]) \in DOMAIN spellMakerDescriptions
                /\ spellMakerDescriptions[NumberOf(mInput[i])] = BodyOf(i)

\* A block that is followed by an index line with a number is stored at its
\* index when that index is in 0..42.
C20_StoredWhenFollowed ==
    (mPc = "done" /\ Len(mInput) = 3 /\ HasNumber(mInput[1]) /\ IsTextLine(mInput[2])
        /\ IsIndexLine(mInput[3])) =>
          /\ NumberOf(mInput[1]) < 43
          /\ spellMakerDescriptions = (NumberOf(mInput[1]) :> mInput[2])

---------------------------------------------------------------------------
(* C22: the quiz parser as a four-state machine *)

\* The part of the text the loop has read.
QuizConsumed == SubSeq(qText, 1, Len(qText) - Len(qRest))

\* The machine of the claim: its mode, its four buffers and the number of
\* flushes made by digit-led lines.
MachineStart ==
    [mode |-> "Description", count |-> 0,
     buf |-> [md \in {"Description", "A", "B", "C"} |-> <<>>]]

MachineStep(st, line) ==
    LET ch == line[1]
        mode == IF IsDigit(ch) THEN "Description"
                ELSE IF ch = "a" THEN "A"
                ELSE IF ch = "b" THEN "B"
                ELSE IF ch = "c" THEN "C"
                ELSE st.mode
        flushed == IsDigit(ch) /\ st.mode # "Description"
        kept == IF flushed THEN MachineStart.buf ELSE st.buf
    IN [mode |-> mode,
        count |-> IF flushed THEN st.count + 1 ELSE st.count,
        buf |-> [kept EXCEPT ![mode] = @ \o line \o <<"\n">>]]

RECURSIVE MachineRun(_, _)
MachineRun(st, text) ==
    IF text = <<>> THEN st
    ELSE MachineRun(MachineStep(st, GetLine(text)), AfterLine(text))

\* C22: while the parse goes on and when it has ended normally, the mode and
\* the four strings are those of the machine run over the lines read: a
\* digit-led line enters Description and flushes iff the mode was not
\* Description, a line led by 'a', 'b' or 'c' enters that choice without a
\* flush, any other line keeps the mode, and the line goes to the string of the
\* mode after the switch.  The end of input adds exactly one flush, so a
\* finished parse holds one question more than the digit-led lines read outside
\* Description.
C22_QuizMachine ==
    qPc \in {"loop", "done"} =>
        LET st == MachineRun(MachineStart, QuizConsumed) IN
        /\ qMode = st.mode
        /\ qDesc = st.buf["Description"]
        /\ qA = st.buf["A"] /\ qB = st.buf["B"] /\ qC = st.buf["C"]
        /\ qPc = "loop" => qFlushes = st.count /\ Len(questionTxt) = st.count
        /\ qPc = "done" => qFlushes = st.count + 1 /\ Len(questionTxt) = st.count + 1

\* A digit-led line read in mode C has flushed a question and started the
\* description of the next one.
C22_Witness ==
    /\ qPc = "loop" /\ qFlushes = 1 /\ Len(questionTxt) = 1
    /\ qMode = "Description" /\ qDesc = <<"1", "\n">>
    /\ qA = <<>> /\ qB = <<>> /\ qC = <<>>

---------------------------------------------------------------------------
(* C25: choices without a "(5" marker *)

HasMarker(choice) == FindMarker(choice) # Npos

\* C25 (as stated): no question is stored with a choice that has no "(5"
\* marker; a flush with such a choice fails.
C25_Original ==
    \A i \in 1..Len(questionTxt) :
        /\ HasMarker(questionTxt[i].a)
        /\ HasMarker(questionTxt[i].b)
        /\ HasMarker(questionTxt[i].c)

\* What the code does with a choice without a marker: find returns npos, and
\* npos + 2 wraps to 1, so the choice is classified by its second character;
\* a choice shorter than two characters throws std::out_of_range.
C25_SecondCharacter ==
    \A i \in 1..Len(questionTxt) :
        \A x \in {questionTxt[i].a, questionTxt[i].b, questionTxt[i].c} :
            ~HasMarker(x) => Len(x) >= 2 /\ x[2] \in {"l", "c", "v"}

---------------------------------------------------------------------------
(* C21: the record in progress when the input ends *)

\* C21 (as stated): when parseTemplateDat has ended, the record whose key line
\* was read last is in the table, whether or not a '#' line follows it.
C21_Original ==
    (tPc = "done" /\ tKey # <<>>) => tKey \in DOMAIN templateDat

---------------------------------------------------------------------------
(* C24: termination of parseNameChunks *)

\* C24 (as stated): every iteration moves the cursor forward, so the loop
\* reaches the end of the buffer: after a record is read the cursor is beyond
\* the offset the record was read at.
C24_Original ==
    cTrace # <<>> => cOffset > Last(cTrace)

\* What the code guarantees: the cursor never moves back, and it moves forward
\* exactly when the header read declares a length other than 0.
C24_CursorMonotone ==
    /\ \A i \in 1..Len(cTrace) :
          /\ cTrace[i] <= (IF i < Len(cTrace) THEN cTrace[i + 1] ELSE cOffset)
          /\ cTrace[i] < Len(cData)
    /\ \A i \in 1..Len(cTrace) :
          LET next == IF i < Len(cTrace) THEN cTrace[i + 1] ELSE cOffset IN
          next = cTrace[i] <=> cLens[i] = 0

---------------------------------------------------------------------------
(* C23: the world map masks are packed back to back *)

\* C23: the mask assigned to element i holds rectangle i of the table and
\* the bytes of the file from 0x87D5 plus the byte counts of the masks before
\* it, getAdjustedWidth(width) * height of them; each range starts where the
\* one before ends, so the ranges are disjoint and in table order, and the
\* last one, the 37 x 11 exit button, has 5 * 11 bytes.
C23_MaskRanges ==
    /\ Len(wFrom) = Len(worldMapMasks)
    /\ \A i \in 1..Len(worldMapMasks) :
          LET mask == worldMapMasks[i] IN
          /\ mask.rect = MaskRects[i]
          /\ wFrom[i] = StartOffset + MaskBytesBefore(i - 1)
          /\ Len(mask.data) = GetAdjustedWidth(MaskRects[i].width) * MaskRects[i].height
          /\ \A j \in 1..Len(mask.data) :
                /\ mask.data[j] \in ByteValues
                /\ wFrom[i] + j - 1 < wSize => mask.data[j] = MasksByte(wFrom[i] + j - 1)
          /\ i > 1 => wFrom[i] = wFrom[i - 1] + Len(worldMapMasks[i - 1].data)
          /\ \A k \in 1..(i - 1) : wFrom[k] + Len(worldMapMasks[k].data) <= wFrom[i]
    /\ wPc = "done" =>
          /\ Len(worldMapMasks) = MaskCount
          /\ worldMapMasks[MaskCount].rect.width = 37
          /\ worldMapMasks[MaskCount].rect.height = 11
          /\ Len(worldMapMasks[MaskCount].data) = 55
          /\ wOffset = 6556

\* The ten masks were copied from a file that holds all of them.
C23_Witness ==
    /\ wPc = "done" /\ Len(worldMapMasks) = MaskCount
    /\ wSize >= StartOffset + MaskBytesBefore(MaskCount)
    /\ wFrom[MaskCount] = 41274

---------------------------------------------------------------------------
(* C26: sub-panel pops are deferred and bounded *)

\* The panels Game holds: the main panel, the sub-panels and the two pending ones.
PanelsHeld == ({panel, nextPanel, nextSubPanel} \cup Range(subPanels)) \ {0}

\* Between calls into panels nothing is pending, and while a panel's
\* handleEvent or tick runs, that panel is the active one and is alive.
PanelsSafe ==
    /\ pPc = "frame" => (~requestedSubPanelPop /\ nextPanel = 0 /\ nextSubPanel = 0)
    /\ pPc \in {"handling", "aborted"} =>
          (pActive = ActivePanel /\ pActive \notin pDestroyed /\ pActive # 0)
    /\ requestedSubPanelPop => subPanels # <<>>
    /\ PanelsHeld \cap pDestroyed = {}
    /\ pPc # "crash"

\* One step: popSubPanel only sets the flag, or is rejected when the flag is
\* set or the stack is empty; setPanel and pushSubPanel only set the pending
\* pointers; handlePanelChanges pops when asked, then pushes, then switches,
\* removes at most one sub-panel and clears the request.
PanelsStepOk ==
    /\ pCall' = "popSubPanel" =>
          /\ UNCHANGED <<panel, subPanels, nextPanel, nextSubPanel, pDestroyed>>
          /\ IF requestedSubPanelPop \/ subPanels = <<>>
             THEN pPc' = "aborted" /\ UNCHANGED requestedSubPanelPop
             ELSE requestedSubPanelPop' /\ pPc' = pPc
    /\ pCall' \in {"setPanel", "pushSubPanel", "handleEvent", "tick"} =>
          UNCHANGED <<panel, subPanels, requestedSubPanelPop>>
    /\ pCall' = "handlePanelChanges" =>
          LET popped == IF requestedSubPanelPop THEN Front(subPanels) ELSE subPanels IN
          /\ subPanels' = IF nextSubPanel # 0 THEN Append(popped, nextSubPanel) ELSE popped
          /\ panel' = IF nextPanel # 0 THEN nextPanel ELSE panel
          /\ Len(subPanels') >= Len(subPanels) - 1
          /\ Cardinality(Range(subPanels) \ Range(subPanels')) <= 1
          /\ ~requestedSubPanelPop'
          /\ nextPanel' = 0 /\ nextSubPanel' = 0
    /\ pCall' # "handlePanelChanges" => pDestroyed' \cap ({panel} \cup Range(subPanels)) = {}

\* C26: popSubPanel only requests the pop and is rejected when one is
\* already requested or there is no sub-panel; the stack changes only in
\* handlePanelChanges, which pops, then pushes, then switches the panel, takes
\* at most one sub-panel off, never pops an empty stack and leaves no request
\* behind; the panel whose handler is running is never destroyed meanwhile.
C26_DeferredPop == []PanelsSafe /\ [][PanelsStepOk]_vars

\* A sub-panel asked for its own pop and pushed a new sub-panel in the same
\* handler; handlePanelChanges then replaced it on the stack.
C26_Witness ==
    /\ pCall = "handlePanelChanges" /\ pPc = "frame"
    /\ subPanels = <<3>> /\ 2 \in pDestroyed /\ panel = 1

---------------------------------------------------------------------------
(* C27: the name typed in ChooseNamePanel *)

\* The codes of ' ', 'A'..'Z' and 'a'..'z'.
NameCodes == {32} \cup (65..90) \cup (97..122)
IsEnter(e) == e.type = "SDL_KEYDOWN" /\ e.key \in {"SDLK_RETURN", "SDLK_KP_ENTER"}
IsEscape(e) == e.type = "SDL_KEYDOWN" /\ e.key = "SDLK_ESCAPE"

\* C27: whatever events were handled, the name has at most 25 characters,
\* all of them spaces or letters, and the text box shows it; the gender panel
\* is requested only by an enter with a name that is not empty, and gets that
\* name; an escape always requests the class panel and accepts nothing.
C27_NameEntry ==
    /\ Len(eName) <= 25
    /\ \A i \in 1..Len(eName) : eName[i] \in NameCodes
    /\ eShown = eName
    /\ ePc = "gender" => (IsEnter(eLast) /\ eName # <<>> /\ eAccepted = <<eName>>)
    /\ ePc # "gender" => eAccepted = <<>>
    /\ IsEscape(eLast) <=> ePc = "class"
    /\ (IsEnter(eLast) /\ ePc = "input") => eName = <<>>

\* A name of 25 characters with a space in it was accepted.
C27_Witness ==
    /\ ePc = "gender" /\ Len(eName) = 25
    /\ \E i \in 1..Len(eName) : eName[i] = 32
    /\ eAccepted = <<eName>>

\* An escape with a name typed went back to the class panel.
C27_EscapeWitness ==
    ePc = "class" /\ eName # <<>> /\ eAccepted = <<>>

====
